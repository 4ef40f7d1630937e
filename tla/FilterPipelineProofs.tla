------------------------- MODULE FilterPipelineProofs -------------------------
(***************************************************************************)
(* Theorems about FilterPipeline, for any set of extracts and requests of  *)
(* any length.  What a job publishes is finished because every place of    *)
(* the pipeline knows what has been done to the files it holds (Held), and *)
(* because no output path is visited twice (Ahead); what a copy has        *)
(* written lies where it is copied to (Copying); a job that is done is     *)
(* complete because each place knows what lies behind it (Behind); the     *)
(* phases are those of the work because each place knows how many of them  *)
(* are behind it (Clock); a report tells what the last export dropped      *)
(* (Told), and no earlier date than its data have, because no file is of a *)
(* build that is not there yet (Dated).                                    *)
(***************************************************************************)
EXTENDS FilterPipeline, SequenceTheorems, TLAPS

Working == {"exclude", "excluding", "reduce", "reducing", "place_pbf", "copying_pbf"}
Exporting ==
  {"export", "exporting", "folding", "fields", "converting", "placing", "copying"}
InFormat == Exporting \ {"export"}

\* What has been done to the work file, and to the export, at each place.
PassesAt(place) ==
  CASE place \in {"exclude", "excluding"} -> {"filter"}
    [] place \in {"reduce", "reducing"} ->
         {"filter"} \union (IF job.exclude THEN {"exclude"} ELSE {})
    [] OTHER -> PassesFor("pbf")
Exported == PassesFor("pbf") \union {"export"}
Folded == Exported \union (IF job.columns = "other_tags" THEN {"fold"} ELSE {})

IsOf(file, passes) ==
  file \in Made /\ file.from = Source /\ file.passes \ {"columns"} = passes

\* The place agrees with the request, ...
Places ==
  /\ pc \in Working \union Exporting \union {"filtering"} => src <= Len(job.sources)
  /\ pc \in InFormat => fmt <= Len(job.exports)
  /\ pc \in Working \union {"source", "filtering"} => fmt = 1
  /\ pc \in {"exclude", "excluding"} => job.exclude
  /\ pc \in {"reduce", "reducing"} => Reduces
  /\ pc \in {"place_pbf", "copying_pbf"} => job.pbf
  /\ pc = "folding" => job.columns = "other_tags"
  /\ pc = "fields" => job.columns # "other_tags"

\* ... the filtered PBF has been through the passes before it, and has been
\* published by the time it is exported if it was asked for, ...
WorkHeld ==
  /\ pc \in Working => IsOf(work, PassesAt(pc))
  /\ pc \in Exporting /\ ~job.pbf => IsOf(work, PassesFor("pbf"))
  /\ pc \in Exporting /\ job.pbf => <<Source, "pbf">> \in outputs

\* ... and so has the export, which is of this source and no other.
SharedHeld ==
  /\ pc \in Working \union {"source", "filtering", "exporting"} => shared = Absent
  /\ pc = "export" => shared = Absent \/ IsOf(shared, Folded)
  /\ pc = "folding" => IsOf(shared, Exported)
  /\ pc \in {"fields", "converting", "placing", "copying"} => IsOf(shared, Folded)

Held == Places /\ WorkHeld /\ SharedHeld

\* No path that still lies ahead has been published.
Ahead ==
  /\ \A i \in (src + 1)..Len(job.sources), f \in Formats :
             <<job.sources[i], f>> \notin outputs
  /\ src <= Len(job.sources) =>
       \A k \in fmt..Len(job.exports) : <<Source, job.exports[k]>> \notin outputs
PbfAhead ==
  pc \in Working \union {"source", "filtering"} /\ src <= Len(job.sources) =>
    <<Source, "pbf">> \notin outputs

\* The sources before this one are complete, and so are the formats of this one.
Complete(i) ==
  /\ job.pbf => <<job.sources[i], "pbf">> \in outputs
  /\ job.sources[i] \in empty \/
     \A k \in 1..Len(job.exports) : <<job.sources[i], job.exports[k]>> \in outputs
Behind ==
  /\ \A i \in 1..(src - 1) : Complete(i)
  /\ pc \in Exporting => \A k \in 1..(fmt - 1) : <<Source, job.exports[k]>> \in outputs
  /\ pc = "reporting" => src > Len(job.sources)
  /\ pc # "end" => status = "running"
  /\ job.sources = <<>> => empty = {}

\* What lies at the paths is finished, or was not published.
Finished ==
  \A p \in Paths :
    IF p \in outputs
      THEN /\ final[p] \in Made
           /\ final[p].from = p[1] /\ final[p].passes \ {"columns"} = PassesFor(p[2])
      ELSE final[p] \in {Old, Absent, Copied}

\* Only the path that is copied to holds what a copy has written.
Copying ==
  \A p \in Paths : final[p] = Copied =>
    \/ pc = "copying_pbf" /\ p = <<Source, "pbf">>
    \/ pc = "copying" /\ p = <<Source, Format>>
    \/ /\ pc = "end" /\ status = "error"
       /\ src <= Len(job.sources) /\ p[1] = Source

PipelineInv == TypeOK /\ Held /\ Ahead /\ PbfAhead /\ Finished

(***************************************************************************)
(* The phases.                                                             *)
(***************************************************************************)
LEMMA RequestFacts ==
  ASSUME job \in Requests
  PROVE  /\ job.sources \in Seq(Sources) /\ Len(job.sources) \in Nat
         /\ job.exports \in Seq(Exports) /\ Len(job.exports) \in Nat
         /\ job.pbf \in BOOLEAN /\ job.exclude \in BOOLEAN
         /\ \A i \in 1..Len(job.sources) : job.sources[i] \in Sources
         /\ \A k \in 1..Len(job.exports) : job.exports[k] \in Exports
         /\ \A i, k \in 1..Len(job.sources) : job.sources[i] = job.sources[k] => i = k
         /\ \A i, k \in 1..Len(job.exports) : job.exports[i] = job.exports[k] => i = k
<1>1. PICK m \in 0..MaxSources :
        /\ job.sources \in [1..m -> Sources]
        /\ \A i, k \in 1..m : job.sources[i] = job.sources[k] => i = k
  BY DEF Requests, Lists
<1>3. job.sources \in Seq(Sources) /\ Len(job.sources) = m
  BY <1>1, BoundsAssumption
<1>4. PICK n \in 0..2 :
        /\ job.exports \in [1..n -> Exports]
        /\ \A i, k \in 1..n : job.exports[i] = job.exports[k] => i = k
  BY DEF Requests, Lists
<1>5. job.exports \in Seq(Exports) /\ Len(job.exports) = n
  BY <1>4
<1>6. job.pbf \in BOOLEAN /\ job.exclude \in BOOLEAN
  BY DEF Requests
<1> QED
  BY <1>1, <1>3, <1>4, <1>5, <1>6

LEMMA PhasesLength ==
  ASSUME job \in Requests
  PROVE  Len(Phases) \in Nat \ {0}
<1> DEFINE each == Len(StepsOfSource)
           all == Len(job.sources) * each
<1>1. Len(job.sources) \in Nat /\ job.exports \in Seq(Exports) /\ Len(job.exports) \in Nat
  BY RequestFacts
<1>2. StepsOfSource \in Seq([step : {"filter", "exclude", "reduce", "export_convert"},
                             fmt : Formats])
  <2> DEFINE S == [step : {"filter", "exclude", "reduce", "export_convert"}, fmt : Formats]
             last == [i \in 1..Len(job.exports) |-> [step |-> "export_convert", fmt |-> job.exports[i]]]
  <2>1. \A i \in 1..Len(job.exports) : job.exports[i] \in Formats
    BY RequestFacts DEF Formats
  <2>2. last \in Seq(S)
    <3>1. last \in [1..Len(job.exports) -> S]
      BY <2>1
    <3> QED
      BY <1>1, <3>1 DEF S
  <2>3. <<[step |-> "filter", fmt |-> "pbf"]>> \in Seq(S)
    BY DEF Formats
  <2>4. (IF job.exclude THEN <<[step |-> "exclude", fmt |-> "pbf"]>> ELSE <<>>) \in Seq(S)
    <3>1. <<[step |-> "exclude", fmt |-> "pbf"]>> \in Seq(S)
      BY DEF Formats
    <3>2. <<>> \in Seq(S)
      OBVIOUS
    <3> HIDE DEF S
    <3> QED
      BY <3>1, <3>2
  <2>5. (IF Reduces THEN <<[step |-> "reduce", fmt |-> "pbf"]>> ELSE <<>>) \in Seq(S)
    <3>1. <<[step |-> "reduce", fmt |-> "pbf"]>> \in Seq(S)
      BY DEF Formats
    <3>2. <<>> \in Seq(S)
      OBVIOUS
    <3> HIDE DEF S
    <3> QED
      BY <3>1, <3>2
  <2> HIDE DEF S, last
  <2>6. \A a, b, c, d \in Seq(S) : a \o b \o c \o d \in Seq(S)
    BY ConcatProperties
  <2>7. StepsOfSource =
          <<[step |-> "filter", fmt |-> "pbf"]>>
          \o (IF job.exclude THEN <<[step |-> "exclude", fmt |-> "pbf"]>> ELSE <<>>)
          \o (IF Reduces THEN <<[step |-> "reduce", fmt |-> "pbf"]>> ELSE <<>>)
          \o last
    BY DEF StepsOfSource, last
  <2>8. StepsOfSource \in Seq(S)
    BY <2>2, <2>3, <2>4, <2>5, <2>6, <2>7
  <2> QED
    BY <2>8 DEF S
<1>3. all \in Nat
  BY <1>1, <1>2, LenProperties
<1>4. Phases = [n \in 1..(all + 1) |-> Phases[n]]
  BY DEF Phases
<1>5. Len(Phases) = all + 1
  BY <1>3 DEF Phases
<1> QED
  BY <1>3, <1>5

(***************************************************************************)
(* The invariant.                                                          *)
(***************************************************************************)
BooksOK ==
  index \in 0..Len(Phases) /\ ticking \in BOOLEAN /\ (ticking => index < Len(Phases))

LEMMA JobDecides ==
  ASSUME UNCHANGED job
  PROVE  /\ Phases' = Phases /\ Reduces' = Reduces
         /\ Exported' = Exported /\ Folded' = Folded
         /\ \A f \in Formats : PassesFor(f)' = PassesFor(f)
<1>1. Reduces' = Reduces /\ StepsOfSource' = StepsOfSource
  BY DEF Reduces, StepsOfSource
<1>2. Phases' = Phases
  BY <1>1 DEF Phases
<1>3. \A f \in Formats : PassesFor(f)' = PassesFor(f)
  BY <1>1 DEF PassesFor
<1>4. Exported' = Exported /\ Folded' = Folded
  BY <1>1 DEF Exported, Folded, PassesFor
<1> QED
  BY <1>1, <1>2, <1>3, <1>4

LEMMA BooksStayInOrder ==
  ASSUME job \in Requests, BooksOK, UNCHANGED job,
         NEW w, FinishPhase(w) \/ StartPhase \/ UNCHANGED books
  PROVE  BooksOK'
<1>1. Phases' = Phases /\ Len(Phases) \in Nat
  BY JobDecides, PhasesLength
<1>2. CASE FinishPhase(w)
  <2>1. CASE ticking /\ index < Len(Phases)
    <3>1. index' = index + 1 /\ ticking' = FALSE
      BY <1>2, <2>1 DEF FinishPhase
    <3>2. index \in 0..Len(Phases)
      BY DEF BooksOK
    <3>3. index' \in 0..Len(Phases)
      BY <1>1, <2>1, <3>1, <3>2
    <3> QED
      BY <1>1, <3>1, <3>3 DEF BooksOK
  <2>2. CASE ~(ticking /\ index < Len(Phases))
    <3>1. UNCHANGED books
      BY <1>2, <2>2 DEF FinishPhase
    <3> QED
      BY <1>1, <3>1 DEF BooksOK, books
  <2> QED
    BY <2>1, <2>2
<1>3. CASE StartPhase
  BY <1>1, <1>3 DEF StartPhase, BooksOK
<1>4. CASE UNCHANGED books
  BY <1>1, <1>4 DEF books, BooksOK
<1> QED
  BY <1>2, <1>3, <1>4

LEMMA PassIsAdded ==
  ASSUME NEW file, NEW done, IsOf(file, done),
         NEW pass \in {"exclude", "reduce", "export", "fold", "convert"}
  PROVE  /\ IsOf(After(file, pass), done \union {pass})
         /\ After(file, pass) \in Made /\ After(file, pass).from = Source
<1>1. pass \in Passes /\ pass # "columns" /\ file \in Made
  BY DEF Passes, IsOf
<1>2. /\ After(file, pass) \in Made /\ After(file, pass).from = file.from
      /\ After(file, pass).passes = file.passes \union {pass}
  BY <1>1 DEF Made, After
<1> QED
  BY <1>1, <1>2 DEF IsOf

LEMMA ColumnsAreAdded ==
  ASSUME NEW file, NEW done, IsOf(file, done)
  PROVE  IsOf(After(file, "columns"), done)
<1>1. /\ After(file, "columns") \in Made /\ After(file, "columns").from = file.from
      /\ After(file, "columns").passes = file.passes \union {"columns"}
  BY DEF Made, After, Passes, IsOf
<1> QED
  BY <1>1 DEF IsOf

LEMMA PublishedIsFinished ==
  ASSUME TypeOK, Finished, UNCHANGED job,
         NEW s \in Sources, NEW f \in Formats, NEW file \in Made,
         file.from = s, file.passes \ {"columns"} = PassesFor(f), Publish(<<s, f>>, file)
  PROVE  /\ final' \in [Paths -> Made \union {Absent, Old, Copied}] /\ outputs' \subseteq Paths
         /\ Finished'
<1> DEFINE p == <<s, f>>
<1>1. p \in Paths /\ p[1] = s /\ p[2] = f
  BY DEF Paths
<1>2. final' = [final EXCEPT ![p] = file] /\ outputs' = outputs \union {p}
  BY DEF Publish
<1>3. final \in [Paths -> Made \union {Absent, Old, Copied}] /\ outputs \subseteq Paths
  BY DEF TypeOK
<1>4. \A q \in Paths : final'[q] = IF q = p THEN file ELSE final[q]
  BY <1>1, <1>2, <1>3
<1>5. \A q \in Paths : q[2] \in Formats /\ PassesFor(q[2])' = PassesFor(q[2])
  BY JobDecides DEF Paths
<1>6. Finished'
  <2> SUFFICES ASSUME NEW q \in Paths
               PROVE  IF q \in outputs'
                        THEN /\ final'[q] \in Made
                             /\ final'[q].from = q[1]
                             /\ final'[q].passes \ {"columns"} = PassesFor(q[2])'
                        ELSE final'[q] \in {Old, Absent, Copied}
    BY DEF Finished
  <2>1. CASE q = p
    BY <1>1, <1>2, <1>4, <1>5, <2>1
  <2>2. CASE q # p
    <3>1. final'[q] = final[q] /\ (q \in outputs' <=> q \in outputs)
      BY <1>2, <1>4, <2>2
    <3> QED
      BY <1>5, <3>1 DEF Finished
  <2> QED
    BY <2>1, <2>2
<1> QED
  BY <1>1, <1>2, <1>3, <1>6

LEMMA PassesInOrder ==
  ASSUME job \in Requests
  PROVE  /\ PassesAt("exclude") = {"filter"} /\ PassesAt("excluding") = {"filter"}
         /\ PassesAt("reducing") = PassesAt("reduce")
         /\ PassesAt("place_pbf") = PassesFor("pbf") /\ PassesAt("export") = PassesFor("pbf")
         /\ PassesAt("copying_pbf") = PassesFor("pbf")
         /\ PassesAt(AfterFilter) = {"filter"}
         /\ job.exclude => PassesAt(AfterExclude) = {"filter"} \union {"exclude"}
         /\ Reduces => PassesFor("pbf") = PassesAt("reducing") \union {"reduce"}
         /\ \A f \in Exports : PassesFor(f) = Folded \union {"convert"}
         /\ job.columns # "other_tags" => Folded = Exported
         /\ job.columns = "other_tags" => Folded = Exported \union {"fold"}
<1>1. /\ PassesAt("exclude") = {"filter"} /\ PassesAt("excluding") = {"filter"}
      /\ PassesAt("reducing") = PassesAt("reduce")
      /\ PassesAt("place_pbf") = PassesFor("pbf") /\ PassesAt("export") = PassesFor("pbf")
      /\ PassesAt("copying_pbf") = PassesFor("pbf")
  BY DEF PassesAt
<1>2. PassesAt(AfterFilter) = {"filter"}
  BY DEF PassesAt, AfterFilter, AfterExclude, PassesFor
<1>3. job.exclude => PassesAt(AfterExclude) = {"filter"} \union {"exclude"}
  BY DEF PassesAt, AfterExclude, PassesFor
<1>4. Reduces => PassesFor("pbf") = PassesAt("reducing") \union {"reduce"}
  BY DEF PassesAt, PassesFor
<1>5. \A f \in Exports : PassesFor(f) = Folded \union {"convert"}
  BY DEF PassesFor, Folded, Exported, Exports
<1>6. /\ job.columns # "other_tags" => Folded = Exported
      /\ job.columns = "other_tags" => Folded = Exported \union {"fold"}
  BY DEF Folded
<1> QED
  BY <1>1, <1>2, <1>3, <1>4, <1>5, <1>6

\* Until it is placed the PBF of the source at hand has not been published.
LEMMA PbfStaysAhead ==
  ASSUME TypeOK, Held, Ahead, PbfAhead, [Next]_vars
  PROVE  PbfAhead'
<1>1. job' = job
  BY DEF Next, vars, BeginSource, Filter, BeginPass, Exclude, Reduce, PlacePbf,
        BeginExport, Export, ExportEmpty, Fold, GetFields, Convert, PlaceExport,
        BeginCopy, EndSource, BeginReports, WriteReports, Fail, ReplaceSource
<1>2. src' = src => Source' = Source
  BY <1>1 DEF Source
<1>3. CASE BeginSource \/ Filter \/ BeginPass \/ Exclude \/ Reduce
  <2>1. pc \in Working \union {"source", "filtering"} /\ src' = src /\ outputs' = outputs
    BY <1>3 DEF BeginSource, Filter, BeginPass, Exclude, Reduce, Working, files
  <2> QED
    BY <1>1, <1>2, <2>1 DEF PbfAhead
<1>4. CASE BeginCopy
  <2>1. /\ src' = src /\ outputs' = outputs
        /\ pc = "place_pbf" \/ pc' = "copying"
    BY <1>4 DEF BeginCopy, Goto
  <2> QED
    BY <1>1, <1>2, <2>1 DEF PbfAhead, Working
<1>5. CASE ExportEmpty \/ EndSource
  <2>1. src' = src + 1 /\ outputs' = outputs
    BY <1>5 DEF ExportEmpty, EndSource, NextSource
  <2>2. src \in Nat /\ Len(job.sources) \in Nat
    BY RequestFacts DEF TypeOK
  <2>3. src' <= Len(job.sources) => src' \in (src + 1)..Len(job.sources)
    BY <2>1, <2>2
  <2>4. src' <= Len(job.sources) => <<job.sources[src'], "pbf">> \notin outputs
    BY <2>3 DEF Ahead, Formats
  <2> QED
    BY <1>1, <2>1, <2>4 DEF PbfAhead, Source
<1>6. CASE PlacePbf \/ BeginExport \/ Export \/ Fold \/ GetFields \/ Convert
           \/ PlaceExport \/ BeginReports \/ WriteReports \/ Fail
  <2>1. pc' \notin Working \union {"source", "filtering"}
    BY <1>6 DEF PlacePbf, BeginExport, Export, Fold, GetFields, Convert, PlaceExport,
        BeginReports, WriteReports, Fail, Goto, Working
  <2> QED
    BY <2>1 DEF PbfAhead
<1>7. CASE ReplaceSource \/ UNCHANGED vars
  BY <1>1, <1>2, <1>7 DEF ReplaceSource, vars, files, PbfAhead
<1> QED
  BY <1>3, <1>4, <1>5, <1>6, <1>7 DEF Next

LEMMA PipelineInvInductive ==
  PipelineInv /\ [Next]_vars => PipelineInv'
<1> SUFFICES ASSUME PipelineInv, [Next]_vars PROVE PipelineInv'
  OBVIOUS
<1>1. TypeOK /\ Held /\ Ahead /\ PbfAhead /\ Finished /\ BooksOK /\ job \in Requests
  BY DEF PipelineInv, TypeOK, BooksOK
<1>p. PbfAhead'
  BY <1>1, PbfStaysAhead
<1>2. UNCHANGED job
  BY DEF Next, vars, BeginSource, Filter, BeginPass, Exclude, Reduce, PlacePbf,
        BeginExport, Export, ExportEmpty, Fold, GetFields, Convert, PlaceExport,
        BeginCopy, EndSource, BeginReports, WriteReports, Fail, ReplaceSource
<1>3. /\ Phases' = Phases /\ Reduces' = Reduces /\ Exported' = Exported /\ Folded' = Folded
      /\ \A f \in Formats : PassesFor(f)' = PassesFor(f)
      /\ \A p : PassesAt(p)' = PassesAt(p)
  <2>1. \A p : PassesAt(p)' = PassesAt(p)
    BY <1>2, JobDecides DEF PassesAt, Formats
  <2> QED
    BY <1>2, <2>1, JobDecides
<1>4. /\ Len(job.sources) \in Nat /\ Len(job.exports) \in Nat
      /\ job.pbf \in BOOLEAN /\ job.exclude \in BOOLEAN
      /\ \A i \in 1..Len(job.sources) : job.sources[i] \in Sources
      /\ \A k \in 1..Len(job.exports) : job.exports[k] \in Exports
      /\ \A i, k \in 1..Len(job.sources) : job.sources[i] = job.sources[k] => i = k
      /\ \A i, k \in 1..Len(job.exports) : job.exports[i] = job.exports[k] => i = k
  BY <1>1, RequestFacts
<1>5. /\ src <= Len(job.sources) => Source \in Sources /\ build[Source] \in 0..MaxBuild
      /\ fmt <= Len(job.exports) => Format \in Exports
      /\ src \in 1..Len(job.sources) + 1 /\ fmt \in 1..Len(job.exports) + 1
  BY <1>1, <1>4 DEF TypeOK, Source, Format
<1>6. CASE BeginSource
  <2>1. BooksOK'
    <3>1. StartPhase
      BY <1>6 DEF BeginSource
    <3> QED
      BY <1>1, <1>2, <3>1, BooksStayInOrder
  <2>2. TypeOK'
    BY <1>1, <1>2, <1>3, <1>4, <1>5, <1>6, <2>1
       DEF TypeOK, BooksOK, files, notes, Goto, BeginSource
  <2>3. Held'
    <3>1. Places'
      BY <1>1, <1>2, <1>3, <1>4, <1>6
         DEF Held, Places, Working, Exporting, InFormat, files, notes, Goto,
            BeginSource
    <3>2. WorkHeld'
      BY <1>1, <1>2, <1>3, <1>4, <1>6
         DEF Held, WorkHeld, IsOf, Working, Exporting, files, notes, Goto, Source,
            Formats, BeginSource
    <3>3. SharedHeld'
      BY <1>1, <1>2, <1>3, <1>4, <1>6
         DEF Held, SharedHeld, IsOf, Working, files, notes, Goto, Source,
            BeginSource
    <3> QED
      BY <3>1, <3>2, <3>3 DEF Held
  <2>4. Ahead'
    BY <1>1, <1>2, <1>3, <1>4, <1>6
       DEF Ahead, files, notes, Source, Format, BeginSource
  <2>5. Finished'
    BY <1>1, <1>2, <1>3, <1>6
       DEF Finished, files, notes, Paths, BeginSource
  <2> QED
    BY <1>p, <2>2, <2>3, <2>4, <2>5 DEF PipelineInv
<1>7. CASE Filter
  <2>1. BooksOK'
    <3>1. FinishPhase(Work("filter", "pbf"))
      BY <1>7 DEF Filter
    <3> QED
      BY <1>1, <1>2, <3>1, BooksStayInOrder
  <2>2. TypeOK'
    <3>1. work' \in Made
      BY <1>1, <1>5, <1>7 DEF Filter, Held, Places, Made, Passes
    <3>2. pc' \in {"exclude", "reduce", "place_pbf", "export"}
      BY <1>7 DEF Filter, Goto, AfterFilter, AfterExclude
    <3> QED
      BY <1>1, <1>2, <1>3, <1>4, <1>5, <1>7, <2>1, <3>1, <3>2
         DEF TypeOK, BooksOK, notes, Goto, Filter
  <2>3. Held'
    <3>1. Places'
      BY <1>1, <1>2, <1>3, <1>4, <1>7
         DEF Held, Places, Working, Exporting, InFormat, notes, Goto, Filter,
            AfterFilter, AfterExclude
    <3>2. WorkHeld'
      <4>1. IsOf(work, {"filter"})'
        BY <1>1, <1>2, <1>5, <1>7
           DEF Filter, Held, Places, Made, Passes, IsOf, Source
      <4>2. PassesAt(pc)' = {"filter"} /\ (pc' = "export" => PassesFor("pbf")' = {"filter"})
        BY <1>1, <1>2, <1>3, <1>7, PassesInOrder DEF Filter, Goto, Formats
      <4>3. pc' \in {"exclude", "reduce", "place_pbf", "export"} /\ (pc' = "export" => ~job.pbf)
        BY <1>7 DEF Filter, Goto, AfterFilter, AfterExclude, Reduces
      <4> QED
        BY <1>2, <4>1, <4>2, <4>3 DEF WorkHeld, IsOf, Working, Exporting
    <3>3. SharedHeld'
      BY <1>1, <1>2, <1>3, <1>4, <1>7
         DEF Held, SharedHeld, IsOf, Working, notes, Goto, Source, Filter,
            AfterFilter, AfterExclude
    <3> QED
      BY <3>1, <3>2, <3>3 DEF Held
  <2>4. Ahead'
    BY <1>1, <1>2, <1>3, <1>4, <1>7
       DEF Ahead, notes, Source, Format, Filter, AfterFilter, AfterExclude
  <2>5. Finished'
    BY <1>1, <1>2, <1>3, <1>7
       DEF Finished, notes, Paths, Filter, AfterFilter, AfterExclude
  <2> QED
    BY <1>p, <2>2, <2>3, <2>4, <2>5 DEF PipelineInv
<1>8. CASE BeginPass
  <2>1. BooksOK'
    <3>1. StartPhase
      BY <1>8 DEF BeginPass
    <3> QED
      BY <1>1, <1>2, <3>1, BooksStayInOrder
  <2>2. TypeOK'
    BY <1>1, <1>2, <1>3, <1>4, <1>5, <1>8, <2>1
       DEF TypeOK, BooksOK, files, notes, Goto, BeginPass
  <2>3. Held'
    <3>1. Places'
      BY <1>1, <1>2, <1>3, <1>4, <1>8
         DEF Held, Places, Working, Exporting, InFormat, files, notes, Goto,
            BeginPass
    <3>2. WorkHeld'
      <4>1. PassesAt(pc') = PassesAt(pc)
        BY <1>1, <1>8, PassesInOrder DEF BeginPass, Goto
      <4> QED
        BY <1>1, <1>2, <1>3, <1>8, <4>1
           DEF Held, WorkHeld, IsOf, Working, Exporting, files, BeginPass, Goto,
              Source
    <3>3. SharedHeld'
      BY <1>1, <1>2, <1>3, <1>4, <1>8
         DEF Held, SharedHeld, IsOf, Working, files, notes, Goto, Source, BeginPass
    <3> QED
      BY <3>1, <3>2, <3>3 DEF Held
  <2>4. Ahead'
    BY <1>1, <1>2, <1>3, <1>4, <1>8
       DEF Ahead, files, notes, Source, Format, BeginPass
  <2>5. Finished'
    BY <1>1, <1>2, <1>3, <1>8 DEF Finished, files, notes, Paths, BeginPass
  <2> QED
    BY <1>p, <2>2, <2>3, <2>4, <2>5 DEF PipelineInv
<1>9. CASE Exclude
  <2>1. BooksOK'
    <3>1. FinishPhase(Work("exclude", "pbf"))
      BY <1>9 DEF Exclude
    <3> QED
      BY <1>1, <1>2, <3>1, BooksStayInOrder
  <2>2. TypeOK'
    <3>1. work' \in Made
      BY <1>1, <1>9, PassIsAdded DEF Exclude, Held, WorkHeld, Working
    <3>2. pc' \in {"reduce", "place_pbf", "export"}
      BY <1>9 DEF Exclude, Goto, AfterExclude
    <3> QED
      BY <1>1, <1>2, <1>3, <1>4, <1>5, <1>9, <2>1, <3>1, <3>2
         DEF TypeOK, BooksOK, notes, Goto, Exclude
  <2>3. Held'
    <3>1. Places'
      BY <1>1, <1>2, <1>3, <1>4, <1>9
         DEF Held, Places, Working, Exporting, InFormat, notes, Goto, Exclude,
            AfterExclude
    <3>2. WorkHeld'
      <4>1. IsOf(work, PassesAt("excluding"))
        BY <1>1, <1>9 DEF Exclude, Held, WorkHeld, Working
      <4>2. PassesAt(AfterExclude) = PassesAt("excluding") \union {"exclude"}
        BY <1>1, <1>9, PassesInOrder DEF Exclude, Held, Places
      <4>3. IsOf(work', PassesAt(AfterExclude)) /\ src' = src
        <5>1. IsOf(After(work, "exclude"), PassesAt("excluding") \union {"exclude"})
          BY <4>1, PassIsAdded
        <5> QED
          BY <1>9, <4>2, <5>1 DEF Exclude
      <4>4. /\ pc' \in {"reduce", "place_pbf", "export"}
            /\ PassesAt(pc') = PassesAt(AfterExclude)
            /\ pc' = "export" => ~job.pbf /\ PassesAt(AfterExclude) = PassesFor("pbf")
        BY <1>1, <1>9, PassesInOrder DEF Exclude, Goto, AfterExclude, Reduces
      <4> QED
        BY <1>2, <1>3, <4>3, <4>4
           DEF WorkHeld, IsOf, Working, Exporting, Source, Formats
    <3>3. SharedHeld'
      BY <1>1, <1>2, <1>3, <1>4, <1>9
         DEF Held, SharedHeld, IsOf, Working, notes, Goto, Source, Exclude,
            AfterExclude
    <3> QED
      BY <3>1, <3>2, <3>3 DEF Held
  <2>4. Ahead'
    BY <1>1, <1>2, <1>3, <1>4, <1>9
       DEF Ahead, notes, Source, Format, Exclude, AfterExclude
  <2>5. Finished'
    BY <1>1, <1>2, <1>3, <1>9
       DEF Finished, notes, Paths, Exclude, AfterExclude
  <2> QED
    BY <1>p, <2>2, <2>3, <2>4, <2>5 DEF PipelineInv
<1>10. CASE Reduce
  <2>1. BooksOK'
    <3>1. FinishPhase(Work("reduce", "pbf"))
      BY <1>10 DEF Reduce
    <3> QED
      BY <1>1, <1>2, <3>1, BooksStayInOrder
  <2>2. TypeOK'
    <3>1. work' \in Made
      BY <1>1, <1>10, PassIsAdded DEF Reduce, Held, WorkHeld, Working
    <3>2. pc' \in {"place_pbf"}
      BY <1>10 DEF Reduce, Goto
    <3> QED
      BY <1>1, <1>2, <1>3, <1>4, <1>5, <1>10, <2>1, <3>1, <3>2
         DEF TypeOK, BooksOK, notes, Goto, Reduce
  <2>3. Held'
    <3>1. Places'
      <4>1. job.pbf
        BY <1>1, <1>10 DEF Reduce, Held, Places, Reduces
      <4> QED
        BY <1>1, <1>2, <1>10, <4>1
           DEF Held, Places, Working, Exporting, InFormat, Reduce, Goto
    <3>2. WorkHeld'
      <4>1. IsOf(work, PassesAt("reducing"))
        BY <1>1, <1>10 DEF Reduce, Held, WorkHeld, Working
      <4>2. PassesFor("pbf") = PassesAt("reducing") \union {"reduce"}
        BY <1>1, <1>10, PassesInOrder DEF Reduce, Held, Places
      <4>3. IsOf(work', PassesFor("pbf")) /\ src' = src
        <5>1. IsOf(After(work, "reduce"), PassesAt("reducing") \union {"reduce"})
          BY <4>1, PassIsAdded
        <5> QED
          BY <1>10, <4>2, <5>1 DEF Reduce
      <4>4. /\ pc' \in {"place_pbf"}
            /\ PassesAt(pc') = PassesFor("pbf")
        BY <1>1, <1>10, PassesInOrder DEF Reduce, Goto, Reduces
      <4> QED
        BY <1>2, <1>3, <4>3, <4>4
           DEF WorkHeld, IsOf, Working, Exporting, Source, Formats
    <3>3. SharedHeld'
      BY <1>1, <1>2, <1>3, <1>4, <1>10
         DEF Held, SharedHeld, IsOf, Working, notes, Goto, Source, Reduce
    <3> QED
      BY <3>1, <3>2, <3>3 DEF Held
  <2>4. Ahead'
    BY <1>1, <1>2, <1>3, <1>4, <1>10 DEF Ahead, notes, Source, Format, Reduce
  <2>5. Finished'
    BY <1>1, <1>2, <1>3, <1>10 DEF TypeOK, Finished, notes, Paths, Reduce
  <2> QED
    BY <1>p, <2>2, <2>3, <2>4, <2>5 DEF PipelineInv
<1>11. CASE PlacePbf
  <2>1. BooksOK'
    <3>1. UNCHANGED books
      BY <1>11 DEF PlacePbf, books
    <3> QED
      BY <1>1, <1>2, <3>1, BooksStayInOrder
  <2>2. TypeOK'
    <3>1. /\ Source \in Sources /\ "pbf" \in Formats
          /\ work \in Made /\ work.from = Source /\ work.passes \ {"columns"} = PassesFor("pbf")
      BY <1>1, <1>5, <1>11, PassesInOrder
         DEF PlacePbf, Held, Places, WorkHeld, Working, IsOf, Formats
    <3>2. /\ final' \in [Paths -> Made \union {Absent, Old, Copied}] /\ outputs' \subseteq Paths
          /\ Finished'
      BY <1>1, <1>2, <1>11, <3>1, PublishedIsFinished DEF PlacePbf
    <3> QED
      BY <1>1, <1>2, <1>3, <1>11, <2>1, <3>2
         DEF TypeOK, BooksOK, PlacePbf, notes, Goto
  <2>3. Held'
    <3>1. Places'
      BY <1>1, <1>2, <1>3, <1>4, <1>11
         DEF Held, Places, Working, Exporting, InFormat, notes, Goto, PlacePbf,
            Publish
    <3>2. WorkHeld'
      <4>1. pc' = "export" /\ src' = src /\ job.pbf /\ <<Source, "pbf">> \in outputs'
        BY <1>1, <1>11 DEF PlacePbf, Publish, Goto, Held, Places
      <4> QED
        BY <1>2, <4>1 DEF WorkHeld, Working, Exporting, Source
    <3>3. SharedHeld'
      BY <1>1, <1>2, <1>3, <1>4, <1>11
         DEF Held, SharedHeld, IsOf, Working, notes, Goto, Source, PlacePbf, Publish
    <3> QED
      BY <3>1, <3>2, <3>3 DEF Held
  <2>4. Ahead'
    <3>1. /\ outputs' = outputs \union {<<Source, "pbf">>} /\ src' = src /\ fmt' = fmt
          /\ src <= Len(job.sources)
      BY <1>1, <1>11 DEF PlacePbf, Publish, Held, Places, Working
    <3>2. \A k \in 1..Len(job.exports) : job.exports[k] # "pbf"
      BY <1>4 DEF Exports
    <3>3. \A i \in (src + 1)..Len(job.sources) : job.sources[i] # Source
      BY <1>4, <1>5, <3>1 DEF Source
    <3>4. \A i \in (src + 1)..Len(job.sources), f \in Formats :
             <<job.sources[i], f>> \notin outputs'
      BY <1>1, <3>1, <3>3 DEF Ahead
    <3>5. \A k \in fmt..Len(job.exports) : <<Source, job.exports[k]>> \notin outputs'
      BY <1>1, <1>4, <1>5, <3>1, <3>2 DEF Ahead
    <3>6. Source' = Source
      BY <1>2, <3>1 DEF Source
    <3> QED
      BY <1>2, <3>1, <3>4, <3>5, <3>6 DEF Ahead
  <2>5. Finished'
    <3>1. /\ Source \in Sources /\ "pbf" \in Formats
          /\ work \in Made /\ work.from = Source /\ work.passes \ {"columns"} = PassesFor("pbf")
      BY <1>1, <1>5, <1>11, PassesInOrder
         DEF PlacePbf, Held, Places, WorkHeld, Working, IsOf, Formats
    <3> QED
      BY <1>1, <1>2, <1>11, <3>1, PublishedIsFinished DEF PlacePbf
  <2> QED
    BY <1>p, <2>2, <2>3, <2>4, <2>5 DEF PipelineInv
<1>12. CASE BeginExport
  <2>1. BooksOK'
    <3>1. StartPhase
      BY <1>12 DEF BeginExport
    <3> QED
      BY <1>1, <1>2, <3>1, BooksStayInOrder
  <2>2. TypeOK'
    BY <1>1, <1>2, <1>3, <1>4, <1>5, <1>12, <2>1
       DEF TypeOK, BooksOK, files, notes, Goto, BeginExport
  <2>3. Held'
    <3>1. Places'
      BY <1>1, <1>2, <1>3, <1>4, <1>12
         DEF Held, Places, Working, Exporting, files, notes, Goto, BeginExport
    <3>2. WorkHeld'
      BY <1>1, <1>2, <1>3, <1>4, <1>12
         DEF Held, WorkHeld, IsOf, Working, Exporting, files, notes, Goto, Source,
            Formats, BeginExport
    <3>3. SharedHeld'
      BY <1>1, <1>2, <1>3, <1>4, <1>12
         DEF Held, SharedHeld, IsOf, Working, files, notes, Goto, Source,
            BeginExport
    <3> QED
      BY <3>1, <3>2, <3>3 DEF Held
  <2>4. Ahead'
    BY <1>1, <1>2, <1>3, <1>4, <1>12
       DEF Ahead, files, notes, Source, Format, BeginExport
  <2>5. Finished'
    BY <1>1, <1>2, <1>3, <1>12
       DEF Finished, files, notes, Paths, BeginExport
  <2> QED
    BY <1>p, <2>2, <2>3, <2>4, <2>5 DEF PipelineInv
<1>13. CASE Export
  <2>1. BooksOK'
    <3>1. UNCHANGED books
      BY <1>13 DEF Export, books
    <3> QED
      BY <1>1, <1>2, <3>1, BooksStayInOrder
  <2>2. TypeOK'
    <3>1. shared' \in Made
      <4>1. Intermediate \in Made
        BY <1>1, <1>13
           DEF Export, Held, WorkHeld, Exporting, IsOf, Finished, TypeOK,
              Intermediate
      <4> QED
        BY <1>13, <4>1 DEF Export, After, Made, Passes
    <3>2. errors' \in -1..1 /\ dropped' \in [Sources -> 0..1]
      BY <1>1, <1>5, <1>13 DEF Export, Drop, Held, Places, Exporting, TypeOK
    <3>3. pc' \in {"folding", "fields"}
      BY <1>13 DEF Export, Goto
    <3> QED
      BY <1>1, <1>2, <1>3, <1>13, <2>1, <3>1, <3>2, <3>3 DEF TypeOK, BooksOK, Export
  <2>3. Held'
    <3>1. Places'
      BY <1>1, <1>2, <1>3, <1>4, <1>13
         DEF Held, Places, Working, Exporting, InFormat, Goto, Export, Drop
    <3>2. WorkHeld'
      BY <1>1, <1>2, <1>3, <1>4, <1>13
         DEF Held, WorkHeld, IsOf, Working, Exporting, Goto, Source, Formats,
            Export, Drop
    <3>3. SharedHeld'
      <4>1. IsOf(Intermediate, PassesFor("pbf"))
        <5>1. CASE job.pbf
          <6>1. <<Source, "pbf">> \in outputs
            BY <1>1, <1>13, <5>1 DEF Export, Held, WorkHeld, Exporting
          <6>2. <<Source, "pbf">> \in Paths
            BY <1>1, <6>1 DEF TypeOK
          <6> QED
            BY <1>1, <5>1, <6>1, <6>2 DEF Finished, Intermediate, IsOf
        <5>2. CASE ~job.pbf
          BY <1>1, <1>13, <5>2 DEF Export, Held, WorkHeld, Exporting, Intermediate
        <5> QED
          BY <5>1, <5>2
      <4>2. IsOf(shared', Exported) /\ src' = src
        BY <1>13, <4>1, PassIsAdded DEF Export, Exported
      <4>3. /\ pc' \in {"folding", "fields"}
            /\ pc' = "fields" => Folded = Exported
        BY <1>1, <1>13, PassesInOrder DEF Export, Goto
      <4> QED
        BY <1>2, <1>3, <4>2, <4>3 DEF SharedHeld, IsOf, Working, Source
    <3> QED
      BY <3>1, <3>2, <3>3 DEF Held
  <2>4. Ahead'
    BY <1>1, <1>2, <1>3, <1>4, <1>13 DEF Ahead, Source, Format, Export, Drop
  <2>5. Finished'
    BY <1>1, <1>2, <1>3, <1>13 DEF TypeOK, Finished, Paths, Export, Drop
  <2> QED
    BY <1>p, <2>2, <2>3, <2>4, <2>5 DEF PipelineInv
<1>14. CASE ExportEmpty
  <2>1. BooksOK'
    <3>1. FinishPhase(Work("export_convert", Format))
      BY <1>14 DEF ExportEmpty
    <3> QED
      BY <1>1, <1>2, <3>1, BooksStayInOrder
  <2>2. TypeOK'
    <3>1. Source \in Sources /\ src + 1 \in 1..Len(job.sources) + 1 /\ 1 \in 1..Len(job.exports) + 1
      BY <1>1, <1>4, <1>5, <1>14 DEF ExportEmpty, Held, Places, Exporting
    <3>2. errors' \in -1..1 /\ dropped' \in [Sources -> 0..1] /\ empty' \subseteq Sources
      BY <1>1, <1>14, <3>1 DEF ExportEmpty, Drop, TypeOK
    <3> QED
      BY <1>1, <1>2, <1>3, <1>14, <2>1, <3>1, <3>2
         DEF TypeOK, BooksOK, ExportEmpty, NextSource, Goto
  <2>3. Held'
    <3>1. Places'
      BY <1>1, <1>2, <1>3, <1>4, <1>14
         DEF Held, Places, Working, Exporting, InFormat, Goto, ExportEmpty, Drop,
            NextSource
    <3>2. WorkHeld'
      BY <1>1, <1>2, <1>3, <1>4, <1>14
         DEF Held, WorkHeld, IsOf, Working, Exporting, Goto, Source, Formats,
            ExportEmpty, Drop, NextSource
    <3>3. SharedHeld'
      BY <1>1, <1>2, <1>3, <1>4, <1>14
         DEF Held, SharedHeld, IsOf, Working, Goto, Source, ExportEmpty, Drop,
            NextSource
    <3> QED
      BY <3>1, <3>2, <3>3 DEF Held
  <2>4. Ahead'
    <3>1. UNCHANGED outputs /\ src' = src + 1 /\ fmt' = 1
      BY <1>14 DEF ExportEmpty, NextSource
    <3>2. \A k \in 1..Len(job.exports) : job.exports[k] \in Formats
      BY <1>4 DEF Formats
    <3>3. \A i \in (src + 1)..Len(job.sources), f \in Formats :
             <<job.sources[i], f>> \notin outputs
      BY <1>1 DEF Ahead
    <3>4. src' <= Len(job.sources) => src' \in (src + 1)..Len(job.sources)
      BY <1>4, <1>5, <3>1
    <3>5. \A i \in (src' + 1)..Len(job.sources), f \in Formats :
             <<job.sources[i], f>> \notin outputs
      BY <1>4, <1>5, <3>1, <3>3
    <3>6. src' <= Len(job.sources) =>
             \A k \in 1..Len(job.exports) : <<job.sources[src'], job.exports[k]>> \notin outputs
      BY <3>2, <3>3, <3>4
    <3> QED
      BY <1>2, <3>1, <3>5, <3>6 DEF Ahead, Source
  <2>5. Finished'
    BY <1>1, <1>2, <1>3, <1>14
       DEF Finished, Paths, ExportEmpty, Drop, NextSource
  <2> QED
    BY <1>p, <2>2, <2>3, <2>4, <2>5 DEF PipelineInv
<1>15. CASE Fold
  <2>1. BooksOK'
    <3>1. UNCHANGED books
      BY <1>15 DEF Fold, books
    <3> QED
      BY <1>1, <1>2, <3>1, BooksStayInOrder
  <2>2. TypeOK'
    <3>1. shared' \in Made
      BY <1>1, <1>15, PassIsAdded DEF Fold, Held, SharedHeld
    <3> QED
      BY <1>1, <1>2, <1>3, <1>15, <2>1, <3>1 DEF TypeOK, BooksOK, Fold, notes, Goto
  <2>3. Held'
    <3>1. Places'
      BY <1>1, <1>2, <1>3, <1>4, <1>15
         DEF Held, Places, Working, Exporting, InFormat, notes, Goto, Fold
    <3>2. WorkHeld'
      BY <1>1, <1>2, <1>3, <1>4, <1>15
         DEF Held, WorkHeld, IsOf, Working, Exporting, notes, Goto, Source, Formats,
            Fold
    <3>3. SharedHeld'
      <4>1. IsOf(shared, Exported) /\ Folded = Exported \union {"fold"}
        BY <1>1, <1>15, PassesInOrder DEF Fold, Held, Places, SharedHeld
      <4>2. IsOf(shared', Folded) /\ src' = src /\ pc' = "converting"
        BY <1>15, <4>1, PassIsAdded DEF Fold, Goto
      <4> QED
        BY <1>2, <1>3, <4>2 DEF SharedHeld, IsOf, Working, Source
    <3> QED
      BY <3>1, <3>2, <3>3 DEF Held
  <2>4. Ahead'
    BY <1>1, <1>2, <1>3, <1>4, <1>15 DEF Ahead, notes, Source, Format, Fold
  <2>5. Finished'
    BY <1>1, <1>2, <1>3, <1>15 DEF TypeOK, Finished, notes, Paths, Fold
  <2> QED
    BY <1>p, <2>2, <2>3, <2>4, <2>5 DEF PipelineInv
<1>16. CASE Convert
  <2>1. BooksOK'
    <3>1. UNCHANGED books
      BY <1>16 DEF Convert, books
    <3> QED
      BY <1>1, <1>2, <3>1, BooksStayInOrder
  <2>2. TypeOK'
    BY <1>1, <1>2, <1>3, <1>4, <1>5, <1>16, <2>1
       DEF TypeOK, BooksOK, books, notes, Goto, Convert
  <2>3. Held'
    <3>1. Places'
      BY <1>1, <1>2, <1>3, <1>4, <1>16
         DEF Held, Places, Working, Exporting, InFormat, notes, Goto, Convert
    <3>2. WorkHeld'
      BY <1>1, <1>2, <1>3, <1>4, <1>16
         DEF Held, WorkHeld, IsOf, Working, Exporting, notes, Goto, Source, Formats,
            Convert
    <3>3. SharedHeld'
      BY <1>1, <1>2, <1>3, <1>4, <1>16
         DEF Held, SharedHeld, IsOf, Working, notes, Goto, Source, Convert
    <3> QED
      BY <3>1, <3>2, <3>3 DEF Held
  <2>4. Ahead'
    BY <1>1, <1>2, <1>3, <1>4, <1>16 DEF Ahead, notes, Source, Format, Convert
  <2>5. Finished'
    <3> DEFINE p == <<Source, Format>>
    <3>1. fmt \in fmt..Len(job.exports) /\ src <= Len(job.sources)
      BY <1>1, <1>4, <1>16 DEF Convert, Held, Places, Exporting, InFormat, TypeOK
    <3>2. p \notin outputs
      BY <1>1, <3>1 DEF Ahead, Format
    <3>3. \A q \in Paths : final'[q] = IF q = p THEN Absent ELSE final[q]
      BY <1>1, <1>16 DEF Convert, TypeOK
    <3>4. \A q \in Paths : PassesFor(q[2])' = PassesFor(q[2])
      BY <1>3 DEF Paths
    <3>5. UNCHANGED outputs
      BY <1>16 DEF Convert
    <3> HIDE DEF p
    <3> QED
      BY <1>1, <3>2, <3>3, <3>4, <3>5 DEF Finished
  <2> QED
    BY <1>p, <2>2, <2>3, <2>4, <2>5 DEF PipelineInv
<1>17. CASE PlaceExport
  <2>1. BooksOK'
    <3>1. FinishPhase(Work("export_convert", Format))
      BY <1>17 DEF PlaceExport
    <3> QED
      BY <1>1, <1>2, <3>1, BooksStayInOrder
  <2>2. TypeOK'
    <3>1. Source \in Sources /\ Format \in Exports /\ Format \in Formats
      BY <1>1, <1>5, <1>17
         DEF PlaceExport, Held, Places, Exporting, InFormat, Formats
    <3>2. IsOf(shared, Folded) /\ PassesFor(Format) = Folded \union {"convert"}
      BY <1>1, <1>17, <3>1, PassesInOrder DEF PlaceExport, Held, SharedHeld
    <3>3. /\ After(shared, "convert") \in Made /\ After(shared, "convert").from = Source
          /\ After(shared, "convert").passes \ {"columns"} = PassesFor(Format)
      BY <3>2, PassIsAdded DEF IsOf
    <3>4. /\ final' \in [Paths -> Made \union {Absent, Old, Copied}] /\ outputs' \subseteq Paths
          /\ Finished'
      BY <1>1, <1>2, <1>17, <3>1, <3>3, PublishedIsFinished DEF PlaceExport
    <3>5. fmt + 1 \in 1..Len(job.exports) + 1
      BY <1>1, <1>4, <1>17
         DEF PlaceExport, Held, Places, InFormat, Exporting, TypeOK
    <3> QED
      BY <1>1, <1>2, <1>3, <1>17, <2>1, <3>4, <3>5
         DEF TypeOK, BooksOK, PlaceExport, notes, Goto
  <2>3. Held'
    <3>1. Places'
      BY <1>1, <1>2, <1>3, <1>4, <1>17
         DEF Held, Places, Working, Exporting, InFormat, notes, Goto, PlaceExport,
            Publish
    <3>2. WorkHeld'
      BY <1>1, <1>2, <1>3, <1>4, <1>17
         DEF Held, WorkHeld, IsOf, Working, Exporting, notes, Goto, Source, Formats,
            PlaceExport, Publish
    <3>3. SharedHeld'
      BY <1>1, <1>2, <1>3, <1>4, <1>17
         DEF Held, SharedHeld, IsOf, Working, notes, Goto, Source, PlaceExport,
            Publish
    <3> QED
      BY <3>1, <3>2, <3>3 DEF Held
  <2>4. Ahead'
    <3>1. /\ outputs' = outputs \union {<<Source, Format>>} /\ src' = src /\ fmt' = fmt + 1
          /\ src <= Len(job.sources) /\ fmt <= Len(job.exports)
      BY <1>1, <1>17 DEF PlaceExport, Publish, Held, Places, Exporting, InFormat
    <3>2. \A k \in (fmt + 1)..Len(job.exports) : job.exports[k] # Format
      BY <1>4, <1>5, <3>1 DEF Format
    <3>3. \A i \in (src + 1)..Len(job.sources) : job.sources[i] # Source
      BY <1>4, <1>5, <3>1 DEF Source
    <3>4. \A k \in (fmt + 1)..Len(job.exports) : <<Source, job.exports[k]>> \notin outputs
      BY <1>1, <1>4, <1>5, <3>1 DEF Ahead
    <3>5. \A i \in (src + 1)..Len(job.sources), f \in Formats :
             <<job.sources[i], f>> \notin outputs
      BY <1>1 DEF Ahead
    <3>6. Source' = Source
      BY <1>2, <3>1 DEF Source
    <3> QED
      BY <1>2, <3>1, <3>2, <3>3, <3>4, <3>5, <3>6 DEF Ahead
  <2>5. Finished'
    <3>1. Source \in Sources /\ Format \in Exports /\ Format \in Formats
      BY <1>1, <1>5, <1>17
         DEF PlaceExport, Held, Places, Exporting, InFormat, Formats
    <3>2. IsOf(shared, Folded) /\ PassesFor(Format) = Folded \union {"convert"}
      BY <1>1, <1>17, <3>1, PassesInOrder DEF PlaceExport, Held, SharedHeld
    <3>3. /\ After(shared, "convert") \in Made /\ After(shared, "convert").from = Source
          /\ After(shared, "convert").passes \ {"columns"} = PassesFor(Format)
      BY <3>2, PassIsAdded DEF IsOf
    <3> QED
      BY <1>1, <1>2, <1>17, <3>1, <3>3, PublishedIsFinished DEF PlaceExport
  <2> QED
    BY <1>p, <2>2, <2>3, <2>4, <2>5 DEF PipelineInv
<1>18. CASE EndSource
  <2>1. BooksOK'
    <3>1. UNCHANGED books
      BY <1>18 DEF EndSource, books
    <3> QED
      BY <1>1, <1>2, <3>1, BooksStayInOrder
  <2>2. TypeOK'
    BY SMTT(30), <1>1, <1>2, <1>3, <1>4, <1>5, <1>18, <2>1
       DEF TypeOK, BooksOK, Held, Places, Working, Exporting, books, notes, Goto,
          EndSource, NextSource
  <2>3. Held'
    <3>1. Places'
      BY <1>1, <1>2, <1>3, <1>4, <1>18
         DEF Held, Places, Working, Exporting, InFormat, notes, Goto, EndSource,
            NextSource
    <3>2. WorkHeld'
      BY <1>1, <1>2, <1>3, <1>4, <1>18
         DEF Held, WorkHeld, IsOf, Working, Exporting, notes, Goto, Source, Formats,
            EndSource, NextSource
    <3>3. SharedHeld'
      BY <1>1, <1>2, <1>3, <1>4, <1>18
         DEF Held, SharedHeld, IsOf, Working, notes, Goto, Source, EndSource,
            NextSource
    <3> QED
      BY <3>1, <3>2, <3>3 DEF Held
  <2>4. Ahead'
    <3>1. UNCHANGED outputs /\ src' = src + 1 /\ fmt' = 1
      BY <1>18 DEF EndSource, NextSource
    <3>2. \A k \in 1..Len(job.exports) : job.exports[k] \in Formats
      BY <1>4 DEF Formats
    <3>3. \A i \in (src + 1)..Len(job.sources), f \in Formats :
             <<job.sources[i], f>> \notin outputs
      BY <1>1 DEF Ahead
    <3>4. src' <= Len(job.sources) => src' \in (src + 1)..Len(job.sources)
      BY <1>4, <1>5, <3>1
    <3>5. \A i \in (src' + 1)..Len(job.sources), f \in Formats :
             <<job.sources[i], f>> \notin outputs
      BY <1>4, <1>5, <3>1, <3>3
    <3>6. src' <= Len(job.sources) =>
             \A k \in 1..Len(job.exports) : <<job.sources[src'], job.exports[k]>> \notin outputs
      BY <3>2, <3>3, <3>4
    <3> QED
      BY <1>2, <3>1, <3>5, <3>6 DEF Ahead, Source
  <2>5. Finished'
    BY <1>1, <1>2, <1>3, <1>18
       DEF Finished, notes, Paths, EndSource, NextSource
  <2> QED
    BY <1>p, <2>2, <2>3, <2>4, <2>5 DEF PipelineInv
<1>19. CASE BeginReports
  <2>1. BooksOK'
    <3>1. StartPhase
      BY <1>19 DEF BeginReports
    <3> QED
      BY <1>1, <1>2, <3>1, BooksStayInOrder
  <2>2. TypeOK'
    BY <1>1, <1>2, <1>3, <1>4, <1>5, <1>19, <2>1
       DEF TypeOK, BooksOK, files, notes, Goto, BeginReports
  <2>3. Held'
    <3>1. Places'
      BY <1>1, <1>2, <1>3, <1>4, <1>19
         DEF Held, Places, Working, Exporting, InFormat, files, notes, Goto,
            BeginReports
    <3>2. WorkHeld'
      BY <1>1, <1>2, <1>3, <1>4, <1>19
         DEF Held, WorkHeld, IsOf, Working, Exporting, files, notes, Goto, Source,
            Formats, BeginReports
    <3>3. SharedHeld'
      BY <1>1, <1>2, <1>3, <1>4, <1>19
         DEF Held, SharedHeld, IsOf, Working, files, notes, Goto, Source,
            BeginReports
    <3> QED
      BY <3>1, <3>2, <3>3 DEF Held
  <2>4. Ahead'
    BY <1>1, <1>2, <1>3, <1>4, <1>19
       DEF Ahead, files, notes, Source, Format, BeginReports
  <2>5. Finished'
    BY <1>1, <1>2, <1>3, <1>19
       DEF Finished, files, notes, Paths, BeginReports
  <2> QED
    BY <1>p, <2>2, <2>3, <2>4, <2>5 DEF PipelineInv
<1>20. CASE WriteReports
  <2>1. BooksOK'
    <3>1. FinishPhase(ReportPhase)
      BY <1>20 DEF WriteReports
    <3> QED
      BY <1>1, <1>2, <3>1, BooksStayInOrder
  <2>2. TypeOK'
    <3>1. \A p \in Paths : build[p[1]] \in 0..MaxBuild
      BY <1>1 DEF TypeOK, Paths
    <3>2. \A p \in Paths : Report(p) \in [data : -1..MaxBuild, dropped : -1..1]
      BY <1>1, <3>1, BoundsAssumption DEF Report, TypeOK
    <3>3. report' \in [Paths -> [data : -1..MaxBuild, dropped : -1..1]]
      BY <1>1, <1>20, <3>2 DEF WriteReports, TypeOK
    <3>4. UNCHANGED <<src, fmt, build, work, shared, final, outputs, errors, dropped, empty>>
      BY <1>20 DEF WriteReports, files
    <3>5. status' \in {"done", "no_matches"} /\ pc' = "end"
      BY <1>20 DEF WriteReports, Goto
    <3> QED
      BY <1>1, <1>2, <1>3, <2>1, <3>3, <3>4, <3>5 DEF TypeOK, BooksOK
  <2>3. Held'
    <3>1. Places'
      BY <1>1, <1>2, <1>3, <1>4, <1>20
         DEF Held, Places, Working, Exporting, InFormat, files, Goto, WriteReports
    <3>2. WorkHeld'
      BY <1>1, <1>2, <1>3, <1>4, <1>20
         DEF Held, WorkHeld, IsOf, Working, Exporting, files, Goto, Source, Formats,
            WriteReports
    <3>3. SharedHeld'
      BY <1>1, <1>2, <1>3, <1>4, <1>20
         DEF Held, SharedHeld, IsOf, Working, files, Goto, Source, WriteReports
    <3> QED
      BY <3>1, <3>2, <3>3 DEF Held
  <2>4. Ahead'
    BY <1>1, <1>2, <1>3, <1>4, <1>20 DEF Ahead, files, Source, Format, WriteReports
  <2>5. Finished'
    BY <1>1, <1>2, <1>3, <1>20
       DEF TypeOK, Finished, files, Paths, WriteReports
  <2> QED
    BY <1>p, <2>2, <2>3, <2>4, <2>5 DEF PipelineInv
<1>21. CASE Fail
  <2>1. BooksOK'
    BY <1>1, <1>2, <1>3, <1>21 DEF Fail, BooksOK
  <2>2. TypeOK'
    BY <1>1, <1>2, <1>3, <1>4, <1>5, <1>21, <2>1
       DEF TypeOK, BooksOK, files, Goto, Fail
  <2>3. Held'
    <3>1. Places'
      BY <1>1, <1>2, <1>3, <1>4, <1>21
         DEF Held, Places, Working, Exporting, InFormat, files, Goto, Fail
    <3>2. WorkHeld'
      BY <1>1, <1>2, <1>3, <1>4, <1>21
         DEF Held, WorkHeld, IsOf, Working, Exporting, files, Goto, Source, Formats,
            Fail
    <3>3. SharedHeld'
      BY <1>1, <1>2, <1>3, <1>4, <1>21
         DEF Held, SharedHeld, IsOf, Working, files, Goto, Source, Fail
    <3> QED
      BY <3>1, <3>2, <3>3 DEF Held
  <2>4. Ahead'
    BY <1>1, <1>2, <1>3, <1>4, <1>21 DEF Ahead, files, Source, Format, Fail
  <2>5. Finished'
    BY <1>1, <1>2, <1>3, <1>21 DEF TypeOK, Finished, files, Paths, Fail
  <2> QED
    BY <1>p, <2>2, <2>3, <2>4, <2>5 DEF PipelineInv
<1>22. CASE ReplaceSource
  <2>1. BooksOK'
    <3>1. UNCHANGED books
      BY <1>22 DEF ReplaceSource, books
    <3> QED
      BY <1>1, <1>2, <3>1, BooksStayInOrder
  <2>2. TypeOK'
    <3>1. build' \in [Sources -> 0..MaxBuild]
      BY <1>1, <1>22, BoundsAssumption DEF ReplaceSource, TypeOK
    <3> QED
      BY <1>1, <1>2, <1>3, <1>22, <2>1, <3>1
         DEF TypeOK, BooksOK, ReplaceSource, files, notes
  <2>3. Held'
    <3>1. Places'
      BY <1>1, <1>2, <1>3, <1>4, <1>22
         DEF Held, Places, Working, Exporting, files, notes, ReplaceSource
    <3>2. WorkHeld'
      BY <1>1, <1>2, <1>3, <1>4, <1>22
         DEF Held, WorkHeld, IsOf, Working, Exporting, files, notes, Source,
            Formats, ReplaceSource
    <3>3. SharedHeld'
      BY <1>1, <1>2, <1>3, <1>4, <1>22
         DEF Held, SharedHeld, IsOf, Working, files, notes, Source, ReplaceSource
    <3> QED
      BY <3>1, <3>2, <3>3 DEF Held
  <2>4. Ahead'
    BY <1>1, <1>2, <1>3, <1>4, <1>22
       DEF Ahead, files, notes, Source, Format, ReplaceSource
  <2>5. Finished'
    BY <1>1, <1>2, <1>3, <1>22
       DEF Finished, files, notes, Paths, ReplaceSource
  <2> QED
    BY <1>p, <2>2, <2>3, <2>4, <2>5 DEF PipelineInv
<1>23. CASE GetFields
  <2>1. BooksOK'
    <3>1. UNCHANGED books
      BY <1>23 DEF GetFields, books
    <3> QED
      BY <1>1, <1>2, <3>1, BooksStayInOrder
  <2>2. IsOf(shared', Folded)
    <3>1. IsOf(shared, Folded)
      BY <1>1, <1>23 DEF GetFields, Held, SharedHeld
    <3>2. shared' = shared \/ shared' = After(shared, "columns")
      BY <1>23 DEF GetFields
    <3> QED
      BY <3>1, <3>2, ColumnsAreAdded
  <2>3. TypeOK'
    <3>1. shared' \in Made
      BY <2>2 DEF IsOf
    <3> QED
      BY <1>1, <1>2, <1>3, <1>23, <2>1, <3>1 DEF TypeOK, BooksOK, GetFields, notes, Goto
  <2>4. Held'
    <3>1. Places'
      BY <1>1, <1>2, <1>3, <1>4, <1>23
         DEF Held, Places, Working, Exporting, InFormat, notes, Goto, GetFields
    <3>2. WorkHeld'
      BY <1>1, <1>2, <1>3, <1>4, <1>23
         DEF Held, WorkHeld, IsOf, Working, Exporting, notes, Goto, Source, Formats,
            GetFields
    <3>3. SharedHeld'
      <4>1. src' = src /\ pc' = "converting"
        BY <1>23 DEF GetFields, Goto
      <4> QED
        BY <1>2, <1>3, <2>2, <4>1 DEF SharedHeld, IsOf, Working, Source
    <3> QED
      BY <3>1, <3>2, <3>3 DEF Held
  <2>5. Ahead'
    BY <1>1, <1>2, <1>3, <1>4, <1>23 DEF Ahead, notes, Source, Format, GetFields
  <2>6. Finished'
    BY <1>1, <1>2, <1>3, <1>23 DEF TypeOK, Finished, notes, Paths, GetFields
  <2> QED
    BY <1>p, <2>3, <2>4, <2>5, <2>6 DEF PipelineInv
<1>24. CASE BeginCopy
  <2>1. BooksOK'
    <3>1. UNCHANGED books
      BY <1>24 DEF BeginCopy, books
    <3> QED
      BY <1>1, <1>2, <3>1, BooksStayInOrder
  <2>2. PICK p :
          /\ final' = [final EXCEPT ![p] = Copied]
          /\ \/ pc = "place_pbf" /\ pc' = "copying_pbf" /\ p = <<Source, "pbf">>
             \/ pc = "placing" /\ pc' = "copying" /\ p = <<Source, Format>>
    BY <1>24 DEF BeginCopy, Goto
  <2>3. UNCHANGED <<src, fmt, build, work, shared, outputs, notes, job>>
    BY <1>24 DEF BeginCopy
  <2>4. TypeOK'
    <3>1. final' \in [Paths -> Made \union {Absent, Old, Copied}]
      BY <1>1, <2>2 DEF TypeOK
    <3>2. pc' \in {"copying_pbf", "copying"}
      BY <2>2
    <3> QED
      BY <1>1, <1>3, <2>1, <2>3, <3>1, <3>2 DEF TypeOK, BooksOK, notes
  <2>5. Held'
    <3>1. Places'
      BY <1>1, <1>3, <2>2, <2>3 DEF Held, Places, Working, Exporting, InFormat
    <3>2. WorkHeld'
      <4>1. PassesAt("copying_pbf") = PassesAt("place_pbf")
        BY <1>1, PassesInOrder
      <4> QED
        BY <1>1, <1>3, <2>2, <2>3, <4>1
           DEF Held, WorkHeld, IsOf, Working, Exporting, Source, Formats
    <3>3. SharedHeld'
      BY <1>1, <1>3, <2>2, <2>3 DEF Held, SharedHeld, IsOf, Working, Source
    <3> QED
      BY <3>1, <3>2, <3>3 DEF Held
  <2>6. Ahead'
    BY <1>1, <2>3 DEF Ahead, Source, Format
  <2>7. Finished'
    <3>1. p \notin outputs
      <4>1. CASE pc = "place_pbf"
        BY <1>1, <2>2, <4>1 DEF PbfAhead, Held, Places, Working
      <4>2. CASE pc = "placing"
        <5>1. fmt \in fmt..Len(job.exports) /\ src <= Len(job.sources)
          BY <1>1, <1>4, <4>2 DEF Held, Places, Exporting, InFormat, TypeOK
        <5> QED
          BY <1>1, <2>2, <4>2, <5>1 DEF Ahead, Format
      <4> QED
        BY <2>2, <4>1, <4>2
    <3>2. \A q \in Paths : final'[q] = IF q = p THEN Copied ELSE final[q]
      BY <1>1, <2>2 DEF TypeOK
    <3>3. \A q \in Paths : PassesFor(q[2])' = PassesFor(q[2])
      BY <1>3 DEF Paths
    <3> QED
      BY <1>1, <2>3, <3>1, <3>2, <3>3 DEF Finished
  <2> QED
    BY <1>p, <2>4, <2>5, <2>6, <2>7 DEF PipelineInv
<1>25. CASE UNCHANGED vars
  <2>1. TypeOK'
    BY <1>1, <1>3, <1>25 DEF vars, TypeOK
  <2>2. Held' /\ Ahead'
    BY <1>1, <1>2, <1>3, <1>25
       DEF vars, Held, Places, WorkHeld, SharedHeld, IsOf, Source, Formats, Ahead
  <2>3. Finished'
    BY <1>1, <1>3, <1>25 DEF vars, Finished, Paths
  <2> QED
    BY <1>p, <2>1, <2>2, <2>3 DEF PipelineInv
<1> QED
  BY <1>6, <1>7, <1>8, <1>9, <1>10, <1>11, <1>12, <1>13, <1>14, <1>15, <1>16, <1>17,
    <1>18, <1>19, <1>20, <1>21, <1>22, <1>23, <1>24, <1>25
     DEF Next

LEMMA InitIsFinished == Init => PipelineInv
<1> SUFFICES ASSUME Init PROVE PipelineInv
  OBVIOUS
<1>1. job \in Requests
  BY DEF Init
<1>2. Len(Phases) \in Nat \ {0}
  BY <1>1, PhasesLength
<1>3. Len(job.sources) \in Nat /\ Len(job.exports) \in Nat
  BY <1>1, RequestFacts
<1>4. TypeOK
  <2>1. report \in [Paths -> [data : -1..MaxBuild, dropped : -1..1]]
    BY BoundsAssumption DEF Init, NoReport
  <2>2. build \in [Sources -> 0..MaxBuild] /\ dropped \in [Sources -> 0..1]
    BY BoundsAssumption DEF Init
  <2>3. index \in 0..Len(Phases) /\ ticking \in BOOLEAN /\ (ticking => index < Len(Phases))
    BY <1>2 DEF Init
  <2>4. src \in 1..Len(job.sources) + 1 /\ fmt \in 1..Len(job.exports) + 1
    BY <1>3 DEF Init
  <2>5. final \in [Paths -> Made \union {Absent, Old, Copied}]
    BY DEF Init
  <2> QED
    BY <1>1, <2>1, <2>2, <2>3, <2>4, <2>5 DEF Init, TypeOK
<1>5. Held
  BY <1>1 DEF Init, Held, Places, WorkHeld, SharedHeld, Working, Exporting, InFormat
<1>6. Ahead /\ PbfAhead /\ Finished
  BY DEF Init, Ahead, PbfAhead, Finished
<1> QED
  BY <1>4, <1>5, <1>6 DEF PipelineInv

LEMMA PipelineInvHolds == Spec => []PipelineInv
BY InitIsFinished, PipelineInvInductive, PTL DEF Spec

\* Every variable of FilterPipeline holds what the code can put there, and the
\* phase clock runs only for a phase that exists.
THEOREM PipelineTypeCorrect == Spec => []TypeOK
<1>1. PipelineInv => TypeOK
  BY DEF PipelineInv
<1> QED
  BY <1>1, PipelineInvHolds, PTL

LEMMA CopyingIsKept ==
  ASSUME PipelineInv, Copying, [Next]_vars
  PROVE  Copying'
<1>1. TypeOK /\ Held
  BY DEF PipelineInv
<1>2. job' = job
  BY DEF Next, vars, BeginSource, Filter, BeginPass, Exclude, Reduce, PlacePbf,
        BeginExport, Export, ExportEmpty, Fold, GetFields, Convert, PlaceExport,
        BeginCopy, EndSource, BeginReports, WriteReports, Fail, ReplaceSource
<1>3. /\ src' = src => Source' = Source
      /\ src' = src /\ fmt' = fmt => Format' = Format
  BY <1>2 DEF Source, Format
<1>6. CASE BeginCopy
  <2>1. src' = src /\ fmt' = fmt
    BY <1>6 DEF BeginCopy
  <2>2. PICK p :
          /\ final' = [final EXCEPT ![p] = Copied]
          /\ \/ pc = "place_pbf" /\ pc' = "copying_pbf" /\ p = <<Source, "pbf">>
             \/ pc = "placing" /\ pc' = "copying" /\ p = <<Source, Format>>
    BY <1>6 DEF BeginCopy, Goto
  <2>3. \A q \in Paths : final[q] # Copied
    BY <2>2 DEF Copying
  <2>4. \A q \in Paths : final'[q] = Copied => q = p
    BY <1>1, <2>2, <2>3 DEF TypeOK
  <2> QED
    BY <1>3, <2>1, <2>2, <2>4 DEF Copying
<1>7. CASE PlacePbf \/ PlaceExport
  <2>1. PICK p, file :
          /\ file \in Made /\ final' = [final EXCEPT ![p] = file]
          /\ \/ pc \in {"place_pbf", "copying_pbf"} /\ p = <<Source, "pbf">>
             \/ pc \in {"placing", "copying"} /\ p = <<Source, Format>>
    <3>1. CASE PlacePbf
      <4>1. work \in Made
        BY <1>1, <3>1 DEF PlacePbf, Held, WorkHeld, Working, IsOf
      <4> QED
        BY <3>1, <4>1 DEF PlacePbf, Publish
    <3>2. CASE PlaceExport
      <4>1. IsOf(shared, Folded)
        BY <1>1, <3>2 DEF PlaceExport, Held, SharedHeld
      <4>2. After(shared, "convert") \in Made
        BY <4>1 DEF IsOf, After, Made, Passes
      <4> QED
        BY <3>2, <4>2 DEF PlaceExport, Publish
    <3> QED
      BY <1>7, <3>1, <3>2
  <2>2. file # Copied
    <3>1. \A a, b : a = b => DOMAIN a = DOMAIN b
      OBVIOUS
    <3>2. DOMAIN file = {"from", "build", "passes"} /\ DOMAIN Copied = {"from"}
      BY <2>1 DEF Made, Copied
    <3> QED
      BY <3>1, <3>2
  <2>3. \A q \in Paths : final'[q] # Copied
    <3> TAKE q \in Paths
    <3>1. CASE q = p
      BY <1>1, <2>1, <2>2, <3>1 DEF TypeOK
    <3>2. CASE q # p
      <4>1. final'[q] = final[q]
        BY <1>1, <2>1, <3>2 DEF TypeOK
      <4> QED
        BY <2>1, <3>2, <4>1 DEF Copying
    <3> QED
      BY <3>1, <3>2
  <2> QED
    BY <2>3 DEF Copying
<1>8. CASE Convert
  <2>1. pc = "converting" /\ final' = [final EXCEPT ![<<Source, Format>>] = Absent]
    BY <1>8 DEF Convert
  <2>2. \A q \in Paths : final[q] # Copied
    BY <2>1 DEF Copying
  <2>3. Absent # Copied
    BY DEF Absent, Copied
  <2>4. \A q \in Paths : final'[q] # Copied
    BY <1>1, <2>1, <2>2, <2>3 DEF TypeOK
  <2> QED
    BY <2>4 DEF Copying
<1>9. CASE Fail
  <2>1. pc # "end" /\ pc' = "end" /\ status' = "error" /\ UNCHANGED <<src, fmt, final>>
    BY <1>9 DEF Fail, Goto, files
  <2>2. pc \in {"copying_pbf", "copying"} => src <= Len(job.sources)
    BY <1>1 DEF Held, Places, Working, Exporting
  <2> QED
    BY <1>2, <1>3, <2>1, <2>2 DEF Copying
<1>10. CASE ReplaceSource \/ UNCHANGED vars
  <2>1. UNCHANGED <<pc, src, fmt, status, final>>
    BY <1>10 DEF ReplaceSource, vars, files, notes
  <2> QED
    BY <1>2, <1>3, <2>1 DEF Copying
<1>11. CASE \/ BeginSource \/ Filter \/ BeginPass \/ Exclude \/ Reduce \/ BeginExport
            \/ Export \/ ExportEmpty \/ Fold \/ GetFields \/ EndSource \/ BeginReports
            \/ WriteReports
  <2>1. pc \notin {"copying_pbf", "copying", "end"} /\ final' = final
    BY <1>11 DEF BeginSource, Filter, BeginPass, Exclude, Reduce, BeginExport, Export,
        ExportEmpty, Fold, GetFields, EndSource, BeginReports, WriteReports, files
  <2> QED
    BY <2>1 DEF Copying
<1> QED
  BY <1>6, <1>7, <1>8, <1>9, <1>10, <1>11 DEF Next

\* What _execute_job has published is the complete work on that source, for any
\* number of extracts and however often a source is replaced or a command fails;
\* what a copy has written lies only where nothing has been published, while it
\* is copied or after the job has failed.
THEOREM OutputsFinished == Spec => []OutputsAreFinished
<1>1. Init => Copying
  <2>1. Old # Copied
    <3>1. Old.from # Copied.from
      BY DEF Old, Copied
    <3> QED
      BY <3>1
  <2> QED
    BY <2>1 DEF Init, Copying
<1>2. PipelineInv /\ Copying /\ [Next]_vars => Copying'
  BY CopyingIsKept
<1>3. PipelineInv /\ Copying => OutputsAreFinished
  <2> SUFFICES ASSUME PipelineInv, Copying, NEW p \in Paths, p \notin outputs,
                      final[p] \notin {Old, Absent}
               PROVE  /\ final[p] = Copied /\ src <= Len(job.sources) /\ p[1] = Source
                      /\ pc \in {"copying_pbf", "copying"} \/ status = "error"
    BY DEF PipelineInv, Finished, OutputsAreFinished
  <2>1. final[p] = Copied
    BY DEF PipelineInv, Finished
  <2>2. pc \in {"copying_pbf", "copying"} => src <= Len(job.sources)
    BY DEF PipelineInv, Held, Places, Working, Exporting
  <2> QED
    BY <2>1, <2>2 DEF Copying
<1> QED
  BY <1>1, <1>2, <1>3, PipelineInvHolds, PTL DEF Spec

(***************************************************************************)
(* What is done is complete.                                               *)
(***************************************************************************)
LEMMA CompleteStays ==
  ASSUME UNCHANGED job, outputs \subseteq outputs', empty \subseteq empty'
  PROVE  \A i : Complete(i) => Complete(i)'
BY DEF Complete

LEMMA NothingIsTakenBack ==
  ASSUME [Next]_vars
  PROVE  UNCHANGED job /\ outputs \subseteq outputs' /\ empty \subseteq empty'
<1>1. CASE BeginSource
  BY <1>1 DEF BeginSource, files, notes
<1>2. CASE Filter
  BY <1>2 DEF Filter, notes
<1>3. CASE BeginPass
  BY <1>3 DEF BeginPass, files, notes
<1>4. CASE Exclude
  BY <1>4 DEF Exclude, notes
<1>5. CASE Reduce
  BY <1>5 DEF Reduce, notes
<1>6. CASE PlacePbf
  BY <1>6 DEF PlacePbf, notes, Publish
<1>7. CASE BeginExport
  BY <1>7 DEF BeginExport, files, notes
<1>8. CASE Export
  BY <1>8 DEF Export
<1>9. CASE ExportEmpty
  BY <1>9 DEF ExportEmpty
<1>10. CASE Fold
  BY <1>10 DEF Fold, notes
<1>11. CASE Convert
  BY <1>11 DEF Convert, notes
<1>12. CASE PlaceExport
  BY <1>12 DEF PlaceExport, notes, Publish
<1>13. CASE EndSource
  BY <1>13 DEF EndSource, notes
<1>14. CASE BeginReports
  BY <1>14 DEF BeginReports, files, notes
<1>15. CASE WriteReports
  BY <1>15 DEF WriteReports, files
<1>16. CASE Fail
  BY <1>16 DEF Fail, files
<1>18. CASE GetFields
  BY <1>18 DEF GetFields, notes
<1>19. CASE BeginCopy
  BY <1>19 DEF BeginCopy, notes
<1>17. CASE ReplaceSource
  BY <1>17 DEF ReplaceSource, files, notes
<1>20. CASE UNCHANGED vars
  BY <1>20 DEF vars
<1> QED
  BY <1>1, <1>2, <1>3, <1>4, <1>5, <1>6, <1>7, <1>8, <1>9, <1>10, <1>11, <1>12,
    <1>13, <1>14, <1>15, <1>16, <1>17, <1>18, <1>19, <1>20
     DEF Next

LEMMA BehindIsInductive ==
  PipelineInv /\ Behind /\ [Next]_vars => Behind'
<1> SUFFICES ASSUME PipelineInv, Behind, [Next]_vars PROVE Behind'
  OBVIOUS
<1>1. UNCHANGED job /\ outputs \subseteq outputs' /\ empty \subseteq empty'
  BY NothingIsTakenBack
<1>2. \A i : Complete(i) => Complete(i)'
  BY <1>1, CompleteStays
<1>3. TypeOK /\ Held /\ job \in Requests
  BY DEF PipelineInv, TypeOK
<1>4. Len(job.sources) \in Nat /\ Len(job.exports) \in Nat
  BY <1>3, RequestFacts
<1>5. src \in Nat \ {0} /\ fmt \in Nat \ {0} /\ src <= Len(job.sources) + 1
  BY <1>3, <1>4 DEF TypeOK
<1>n. job.sources = <<>> => empty' = {}
  <2>1. CASE ExportEmpty
    <3>1. src <= Len(job.sources)
      BY <1>3, <2>1 DEF ExportEmpty, Held, Places, Exporting
    <3> QED
      BY <1>4, <1>5, <3>1
  <2>2. CASE ~ ExportEmpty
    <3>1. empty' = empty
      BY <2>2 DEF Next, BeginSource, Filter, BeginPass, Exclude, Reduce, PlacePbf,
           BeginExport, Export, Fold, GetFields, Convert, PlaceExport, BeginCopy,
           EndSource, BeginReports, WriteReports, Fail, ReplaceSource, notes, vars
    <3> QED
      BY <3>1 DEF Behind
  <2> QED
    BY <2>1, <2>2
<1>6. CASE BeginSource
  BY <1>1, <1>n, <1>2, <1>3, <1>5, <1>6
     DEF BeginSource, Behind, Held, Places, Source, files, notes, Exporting,
        Working, Goto
<1>7. CASE Filter
  <2>1. /\ UNCHANGED <<src, fmt, status>> /\ fmt = 1
        /\ pc' \notin {"reporting", "end"} /\ pc # "end"
    BY <1>3, <1>7
       DEF Filter, Held, Places, Working, Goto, notes, AfterFilter, AfterExclude
  <2> QED
    BY <1>1, <1>n, <1>2, <2>1 DEF Behind
<1>8. CASE BeginPass
  BY <1>1, <1>n, <1>2, <1>3, <1>5, <1>8
     DEF BeginPass, Behind, Held, Places, Source, files, notes, Exporting, Working,
        Goto
<1>9. CASE Exclude
  <2>1. /\ UNCHANGED <<src, fmt, status>> /\ fmt = 1
        /\ pc' \notin {"reporting", "end"} /\ pc # "end"
    BY <1>3, <1>9 DEF Exclude, Held, Places, Working, Goto, notes, AfterExclude
  <2> QED
    BY <1>1, <1>n, <1>2, <2>1 DEF Behind
<1>10. CASE Reduce
  BY <1>1, <1>n, <1>2, <1>3, <1>5, <1>10
     DEF Reduce, Behind, Held, Places, Source, notes, Exporting, Working, Goto
<1>11. CASE PlacePbf
  <2>1. /\ UNCHANGED <<src, fmt, status>> /\ fmt = 1
        /\ pc' \notin {"reporting", "end"} /\ pc # "end"
    BY <1>3, <1>11 DEF PlacePbf, Held, Places, Working, Goto, notes, Publish
  <2> QED
    BY <1>1, <1>n, <1>2, <2>1 DEF Behind
<1>12. CASE BeginExport
  BY <1>1, <1>n, <1>2, <1>3, <1>5, <1>12
     DEF BeginExport, Behind, Held, Places, Source, files, notes, Exporting,
        Working, Goto
<1>13. CASE Export
  BY <1>1, <1>n, <1>2, <1>3, <1>5, <1>13
     DEF Export, Behind, Held, Places, Source, Exporting, Working, Goto
<1>14. CASE ExportEmpty
  <2>1. src' = src + 1 /\ fmt' = 1 /\ pc' = "source" /\ pc # "end" /\ UNCHANGED status
    BY <1>14 DEF ExportEmpty, NextSource, Goto
  <2>2. \A i : i = src => Complete(i)'
    <3>1. job.pbf => <<Source, "pbf">> \in outputs
      BY <1>3, <1>14 DEF ExportEmpty, Held, WorkHeld, Exporting
    <3>2. Source \in empty'
      BY <1>14 DEF ExportEmpty
    <3> QED
      BY <1>1, <3>1, <3>2 DEF Complete, Source
  <2>3. \A i \in 1..src : Complete(i)'
    BY <1>2, <1>5, <2>2 DEF Behind
  <2> QED
    BY <1>1, <1>n, <1>5, <2>1, <2>3 DEF Behind, Exporting
<1>15. CASE Fold
  BY <1>1, <1>n, <1>2, <1>3, <1>5, <1>15
     DEF Fold, Behind, Held, Places, Source, notes, Exporting, Working, Goto
<1>16. CASE Convert
  BY <1>1, <1>n, <1>2, <1>3, <1>5, <1>16
     DEF Convert, Behind, Held, Places, Source, notes, Exporting, Working, Goto
<1>17. CASE PlaceExport
  <2>1. /\ src' = src /\ fmt' = fmt + 1 /\ pc' = "export" /\ pc \in Exporting /\ pc # "end"
        /\ <<Source, Format>> \in outputs' /\ UNCHANGED status
    BY <1>17 DEF PlaceExport, Publish, Goto, notes, Exporting
  <2>2. \A k \in 1..fmt : <<Source, job.exports[k]>> \in outputs'
    BY <1>1, <1>5, <2>1 DEF Behind, Format
  <2> QED
    BY <1>1, <1>n, <1>2, <1>5, <2>1, <2>2 DEF Behind, Source
<1>18. CASE EndSource
  <2>1. src' = src + 1 /\ fmt' = 1 /\ pc' = "source" /\ pc # "end" /\ UNCHANGED status
    BY <1>18 DEF EndSource, NextSource, Goto, notes
  <2>2. \A i : i = src => Complete(i)'
    <3>1. job.pbf => <<Source, "pbf">> \in outputs
      BY <1>3, <1>18 DEF EndSource, Held, WorkHeld, Exporting
    <3>2. \A k \in 1..Len(job.exports) : <<Source, job.exports[k]>> \in outputs
      BY <1>3, <1>4, <1>5, <1>18 DEF EndSource, Behind, Exporting, TypeOK
    <3> QED
      BY <1>1, <3>1, <3>2 DEF Complete, Source
  <2>3. \A i \in 1..src : Complete(i)'
    BY <1>2, <1>5, <2>2 DEF Behind
  <2> QED
    BY <1>1, <1>n, <1>5, <2>1, <2>3 DEF Behind, Exporting
<1>19. CASE BeginReports
  BY <1>1, <1>n, <1>2, <1>3, <1>5, <1>19
     DEF BeginReports, Behind, Held, Places, Source, files, notes, Exporting,
        Working, Goto
<1>20. CASE WriteReports
  BY <1>1, <1>n, <1>2, <1>3, <1>5, <1>20
     DEF WriteReports, Behind, Held, Places, Source, files, Exporting, Working, Goto
<1>21. CASE Fail
  BY <1>1, <1>n, <1>2, <1>3, <1>5, <1>21
     DEF Fail, Behind, Held, Places, Source, files, Exporting, Working, Goto
<1>22. CASE ReplaceSource
  BY <1>1, <1>n, <1>2, <1>22 DEF ReplaceSource, Behind, Source, files, notes
<1>23. CASE GetFields
  BY <1>1, <1>n, <1>2, <1>3, <1>5, <1>23
     DEF GetFields, Behind, Held, Places, Source, notes, Exporting, Working, Goto
<1>24. CASE BeginCopy
  <2>1. /\ UNCHANGED <<src, fmt, status>> /\ pc # "end"
        /\ pc \in Exporting \/ (pc = "place_pbf" /\ pc' = "copying_pbf")
        /\ pc' \in {"copying_pbf", "copying"}
    BY <1>24 DEF BeginCopy, Goto, notes, Exporting
  <2>2. Source' = Source
    BY <1>1, <2>1 DEF Source
  <2> QED
    BY <1>1, <1>n, <1>2, <2>1, <2>2 DEF Behind, Exporting
<1>25. CASE UNCHANGED vars
  BY <1>1, <1>n, <1>2, <1>25 DEF vars, Behind, Source
<1> QED
  BY <1>6, <1>7, <1>8, <1>9, <1>10, <1>11, <1>12, <1>13, <1>14, <1>15, <1>16, <1>17,
    <1>18, <1>19, <1>20, <1>21, <1>22, <1>23, <1>24, <1>25
     DEF Next

LEMMA CompleteWhenReported ==
  ASSUME TypeOK, Behind, WriteReports
  PROVE  DoneIsComplete'
<1>1. UNCHANGED <<job, outputs, empty>>
  BY DEF WriteReports, files
<1>2. Len(job.sources) \in Nat /\ src > Len(job.sources) /\ src \in Nat
  BY RequestFacts DEF TypeOK, WriteReports, Behind
<1>3. \A i \in 1..Len(job.sources) : Complete(i)
  BY <1>2 DEF Behind
<1>4. outputs = {} /\ job.sources # <<>> => empty # {}
  <2>1. job.pbf \/ 1 \in 1..Len(job.exports)
    <3>1. job.pbf \/ job.exports # <<>>
      BY DEF TypeOK, Requests
    <3> QED
      BY <3>1, RequestFacts, EmptySeq DEF TypeOK
  <2>2. job.sources # <<>> => Complete(1)
    <3>1. job.sources # <<>> => 1 \in 1..Len(job.sources)
      BY <1>2, RequestFacts, EmptySeq DEF TypeOK
    <3> QED
      BY <1>3, <3>1
  <2> QED
    BY <2>1, <2>2 DEF Complete
<1>5. (status' = "no_matches") = (outputs = {} /\ job.sources # <<>>)
  BY <1>4 DEF WriteReports, Behind
<1> QED
  BY <1>1, <1>3, <1>5 DEF DoneIsComplete, Complete

LEMMA CompleteIsInductive ==
  PipelineInv /\ Behind /\ DoneIsComplete /\ [Next]_vars => DoneIsComplete'
<1> SUFFICES ASSUME PipelineInv, Behind, DoneIsComplete, [Next]_vars
             PROVE  DoneIsComplete'
  OBVIOUS
<1>1. CASE UNCHANGED vars
  BY <1>1 DEF vars, DoneIsComplete
<1>2. CASE WriteReports
  BY <1>2, CompleteWhenReported DEF PipelineInv
<1>3. CASE Next /\ ~WriteReports
  <2>1. pc # "end"
    BY <1>3
       DEF Next, BeginSource, Filter, BeginPass, Exclude, Reduce, PlacePbf,
          BeginExport, Export, ExportEmpty, Fold, GetFields, Convert, PlaceExport,
          BeginCopy, EndSource, BeginReports, Fail, ReplaceSource
  <2>2. status = "running"
    BY <2>1 DEF Behind
  <2>3. status' \in {"running", "error"}
    BY <1>3, <2>2
       DEF Next, BeginSource, Filter, BeginPass, Exclude, Reduce, PlacePbf,
          BeginExport, Export, ExportEmpty, Fold, GetFields, Convert, PlaceExport,
          BeginCopy, EndSource, BeginReports, Fail, ReplaceSource, notes
  <2> QED
    BY <2>3 DEF DoneIsComplete
<1> QED
  BY <1>1, <1>2, <1>3

\* A job that ends "done" or "no_matches" has published every format of every
\* source that matched anything, and says no_matches exactly when it had sources
\* and nothing came of them: the end of _execute_job, for any request.
THEOREM DoneMeansComplete == Spec => []DoneIsComplete
<1>1. Init => Behind /\ DoneIsComplete
  BY DEF Init, Behind, DoneIsComplete, Exporting
<1>2. PipelineInv /\ Behind /\ DoneIsComplete /\ [Next]_vars => Behind' /\ DoneIsComplete'
  BY BehindIsInductive, CompleteIsInductive
<1> QED
  BY <1>1, <1>2, PipelineInvHolds, PTL DEF Spec

(***************************************************************************)
(* What each place has to its credit: the phase at the index is the one    *)
(* of the work at hand.                                                    *)
(***************************************************************************)
LEMMA RowAndColumn ==
  ASSUME NEW m \in Nat \ {0}, NEW a \in Nat, NEW k \in Nat, k < m
  PROVE  (a * m + k) \div m = a /\ (a * m + k) % m = k
<1> DEFINE n == a * m + k
           q == n \div m
           r == n % m
<1>1. n \in Nat /\ a * m \in Nat
  OBVIOUS
<1>2. q \in Int /\ r \in Nat /\ r < m /\ n = q * m + r
  BY <1>1
<1>3. ASSUME NEW x \in Int, NEW y \in Int, x > y PROVE x * m >= y * m + m
  <2>1. x >= y + 1
    BY <1>3
  <2>2. x * m >= (y + 1) * m
    BY <2>1
  <2> QED
    BY <2>2
<1>4. a * m + k = q * m + r
  BY <1>2
<1> HIDE DEF n, q, r
<1>5. a * m \in Int /\ q * m \in Int
  BY <1>2
<1>6. ~ a > q
  <2>1. a > q => a * m >= q * m + m
    BY <1>2, <1>3
  <2> QED
    BY <1>2, <1>4, <1>5, <2>1
<1>7. ~ q > a
  <2>1. q > a => q * m >= a * m + m
    BY <1>2, <1>3
  <2> QED
    BY <1>2, <1>4, <1>5, <2>1
<1>8. q = a
  BY <1>2, <1>6, <1>7
<1>9. r = k
  BY <1>2, <1>4, <1>5, <1>8
<1> QED
  BY <1>8, <1>9 DEF n, q, r

LEMMA RowsGrow ==
  ASSUME NEW m \in Nat, NEW a \in Nat, NEW b \in Nat
  PROVE  /\ a * m \in Nat /\ (a + 1) * m = a * m + m
         /\ a <= b => a * m <= b * m
<1>1. a * m \in Nat /\ (a + 1) * m = a * m + m
  OBVIOUS
<1>2. ASSUME a <= b PROVE a * m <= b * m
  <2>1. PICK d \in Nat : b = a + d
    <3>1. b - a \in Nat /\ b = a + (b - a)
      BY <1>2
    <3> QED
      BY <3>1
  <2>2. (a + d) * m = a * m + d * m /\ d * m \in Nat
    OBVIOUS
  <2> QED
    BY <1>1, <2>1, <2>2
<1> QED
  BY <1>1, <1>2

Lead == 1 + (IF job.exclude THEN 1 ELSE 0) + (IF Reduces THEN 1 ELSE 0)
Each == Len(StepsOfSource)
StepFor(name, f) == [step |-> name, fmt |-> f]
Steps == [step : {"filter", "exclude", "reduce", "export_convert"}, fmt : Formats]

LEMMA StepsInOrder ==
  ASSUME job \in Requests
  PROVE  /\ StepsOfSource \in Seq(Steps)
         /\ Each = Lead + Len(job.exports) /\ Each \in Nat \ {0} /\ Lead \in 1..3
         /\ StepsOfSource[1] = StepFor("filter", "pbf")
         /\ job.exclude => StepsOfSource[2] = StepFor("exclude", "pbf")
         /\ Reduces => StepsOfSource[Lead] = StepFor("reduce", "pbf")
         /\ \A k \in 1..Len(job.exports) :
              StepsOfSource[Lead + k] = StepFor("export_convert", job.exports[k])
<1> DEFINE one == <<StepFor("filter", "pbf")>>
           two == IF job.exclude THEN <<StepFor("exclude", "pbf")>> ELSE <<>>
           three == IF Reduces THEN <<StepFor("reduce", "pbf")>> ELSE <<>>
           last == [i \in 1..Len(job.exports) |-> StepFor("export_convert", job.exports[i])]
<1>1. Len(job.exports) \in Nat /\ \A i \in 1..Len(job.exports) : job.exports[i] \in Formats
  BY RequestFacts DEF Formats
<1>2. /\ StepFor("filter", "pbf") \in Steps /\ StepFor("exclude", "pbf") \in Steps
      /\ StepFor("reduce", "pbf") \in Steps
      /\ \A i \in 1..Len(job.exports) : StepFor("export_convert", job.exports[i]) \in Steps
  BY <1>1 DEF StepFor, Steps, Formats
<1> HIDE DEF Steps
<1>3. one \in Seq(Steps) /\ Len(one) = 1 /\ one[1] = StepFor("filter", "pbf")
  BY <1>2
<1>4. /\ two \in Seq(Steps) /\ Len(two) = IF job.exclude THEN 1 ELSE 0
      /\ job.exclude => two[1] = StepFor("exclude", "pbf")
  <2>1. CASE job.exclude
    BY <1>2, <2>1
  <2>2. CASE ~ job.exclude
    BY <2>2
  <2> QED
    BY <2>1, <2>2
<1>5. /\ three \in Seq(Steps) /\ Len(three) = IF Reduces THEN 1 ELSE 0
      /\ Reduces => three[1] = StepFor("reduce", "pbf")
  <2>1. CASE Reduces
    BY <1>2, <2>1
  <2>2. CASE ~ Reduces
    BY <2>2
  <2> QED
    BY <2>1, <2>2
<1>6. /\ last \in Seq(Steps) /\ Len(last) = Len(job.exports)
      /\ \A k \in 1..Len(job.exports) : last[k] = StepFor("export_convert", job.exports[k])
  <2>1. last \in [1..Len(job.exports) -> Steps]
    BY <1>2
  <2> QED
    BY <1>1, <2>1
<1>7. StepsOfSource = one \o two \o three \o last
  BY DEF StepsOfSource, StepFor
<1> HIDE DEF one, two, three, last
<1>c. \A s, t \in Seq(Steps) :
        /\ s \o t \in Seq(Steps) /\ Len(s \o t) = Len(s) + Len(t)
        /\ \A i \in 1..Len(s) + Len(t) : (s \o t)[i] = IF i <= Len(s) THEN s[i] ELSE t[i - Len(s)]
  BY ConcatProperties
<1> DEFINE ab == one \o two
           abc == ab \o three
<1>8. /\ ab \in Seq(Steps) /\ Len(ab) = 1 + Len(two)
      /\ ab[1] = StepFor("filter", "pbf")
      /\ job.exclude => ab[2] = StepFor("exclude", "pbf")
  <2>1. /\ ab \in Seq(Steps) /\ Len(ab) = Len(one) + Len(two)
        /\ \A i \in 1..Len(one) + Len(two) :
             ab[i] = IF i <= Len(one) THEN one[i] ELSE two[i - Len(one)]
    BY <1>c, <1>3, <1>4
  <2> QED
    BY <1>3, <1>4, <2>1
<1> HIDE DEF ab
<1>9. /\ abc \in Seq(Steps) /\ Len(abc) = Lead
      /\ abc[1] = StepFor("filter", "pbf")
      /\ job.exclude => abc[2] = StepFor("exclude", "pbf")
      /\ Reduces => abc[Lead] = StepFor("reduce", "pbf")
  <2>1. /\ abc \in Seq(Steps) /\ Len(abc) = Len(ab) + Len(three)
        /\ \A i \in 1..Len(ab) + Len(three) :
             abc[i] = IF i <= Len(ab) THEN ab[i] ELSE three[i - Len(ab)]
    BY <1>c, <1>5, <1>8
  <2>2. Len(ab) \in 1..2 /\ Len(three) \in 0..1 /\ Len(abc) = Lead
    BY <1>4, <1>5, <1>8, <2>1 DEF Lead
  <2>3. abc[1] = ab[1] /\ (job.exclude => abc[2] = ab[2])
    BY <1>4, <1>8, <2>1, <2>2
  <2>4. Reduces => abc[Lead] = three[1]
    <3>1. Reduces => Lead = Len(ab) + 1 /\ Len(three) = 1
      BY <1>5, <2>1, <2>2
    <3> QED
      BY <2>1, <2>2, <3>1
  <2> QED
    BY <1>5, <1>8, <2>1, <2>2, <2>3, <2>4
<1>10. Lead \in 1..3
  BY DEF Lead
<1> HIDE DEF abc
<1>11. StepsOfSource = abc \o last
  BY <1>7 DEF ab, abc
<1>12. /\ StepsOfSource \in Seq(Steps) /\ Each = Lead + Len(job.exports)
       /\ \A i \in 1..Lead + Len(job.exports) :
            StepsOfSource[i] = IF i <= Lead THEN abc[i] ELSE last[i - Lead]
  <2>1. /\ abc \o last \in Seq(Steps) /\ Len(abc \o last) = Len(abc) + Len(last)
        /\ \A i \in 1..Len(abc) + Len(last) :
             (abc \o last)[i] = IF i <= Len(abc) THEN abc[i] ELSE last[i - Len(abc)]
    BY <1>c, <1>6, <1>9
  <2> QED
    BY <1>6, <1>9, <1>11, <2>1 DEF Each
<1>13. \A k \in 1..Len(job.exports) : StepsOfSource[Lead + k] = last[k]
  <2> TAKE k \in 1..Len(job.exports)
  <2>1. Lead + k \in 1..Lead + Len(job.exports) /\ ~ Lead + k <= Lead /\ (Lead + k) - Lead = k
    BY <1>1, <1>10
  <2> QED
    BY <1>12, <2>1
<1>14. /\ StepsOfSource[1] = abc[1] /\ StepsOfSource[Lead] = abc[Lead]
       /\ job.exclude => StepsOfSource[2] = abc[2]
  <2>1. job.exclude => Lead >= 2
    BY DEF Lead
  <2> QED
    BY <1>1, <1>10, <1>12, <2>1
<1>15. Each \in Nat \ {0}
  BY <1>1, <1>10, <1>12
<1> QED
  BY <1>6, <1>9, <1>10, <1>12, <1>13, <1>14, <1>15

Every == Len(job.sources) * Each

LEMMA PhasesInOrder ==
  ASSUME job \in Requests
  PROVE  /\ Every \in Nat /\ Len(Phases) = Every + 1 /\ Phases[Every + 1] = ReportPhase
         /\ \A s \in 1..Len(job.sources), k \in 0..(Each - 1) :
              /\ (s - 1) * Each + k \in 0..(Every - 1)
              /\ Phases[(s - 1) * Each + k + 1] =
                   PhaseOf(job.sources[s], StepsOfSource[k + 1].step, StepsOfSource[k + 1].fmt)
<1>1. Each \in Nat \ {0} /\ Len(job.sources) \in Nat
  BY StepsInOrder, RequestFacts
<1>2. Every \in Nat
  BY <1>1 DEF Every
<1>3. Phases = [n \in 1..Every + 1 |->
                  IF n > Every THEN ReportPhase
                  ELSE PhaseOf(job.sources[((n - 1) \div Each) + 1],
                               StepsOfSource[((n - 1) % Each) + 1].step,
                               StepsOfSource[((n - 1) % Each) + 1].fmt)]
  BY DEF Phases, Every, Each
<1>4. Len(Phases) = Every + 1
  BY <1>2, <1>3
<1>5. Phases[Every + 1] = ReportPhase
  BY <1>2, <1>3
<1>6. ASSUME NEW s \in 1..Len(job.sources), NEW k \in 0..(Each - 1)
      PROVE  /\ (s - 1) * Each + k \in 0..(Every - 1)
             /\ Phases[(s - 1) * Each + k + 1] =
                  PhaseOf(job.sources[s], StepsOfSource[k + 1].step, StepsOfSource[k + 1].fmt)
  <2> DEFINE n == (s - 1) * Each + k
  <2>1. s - 1 \in Nat /\ k \in Nat /\ k < Each
    BY <1>1
  <2>2. (s - 1) * Each \in Nat /\ n \in Nat
    BY <1>1, <2>1
  <2>3. n < Every
    <3>1. s * Each <= Every
      BY <1>1 DEF Every
    <3>2. s * Each = (s - 1) * Each + Each
      BY <1>1, <2>1
    <3> QED
      BY <1>1, <1>2, <2>1, <2>2, <3>1, <3>2
  <2>4. n \div Each = s - 1 /\ n % Each = k
    BY <1>1, <2>1, RowAndColumn
  <2> HIDE DEF n
  <2>5. n + 1 \in 1..Every + 1 /\ ~ n + 1 > Every /\ (n + 1) - 1 = n /\ (s - 1) + 1 = s
    BY <1>2, <2>2, <2>3
  <2>6. Phases[n + 1] =
          PhaseOf(job.sources[s], StepsOfSource[k + 1].step, StepsOfSource[k + 1].fmt)
    BY <1>3, <2>4, <2>5
  <2>7. n \in 0..(Every - 1)
    BY <1>2, <2>2, <2>3
  <2> QED
    BY <2>6, <2>7 DEF n
<1> QED
  BY <1>2, <1>4, <1>5, <1>6

\* The phases of the source at hand that are behind each place.
Offset ==
  CASE pc \in {"source", "filtering"} -> 0
    [] pc \in {"exclude", "excluding"} -> 1
    [] pc \in {"reduce", "reducing"} -> Lead - 1
    [] pc \in {"place_pbf", "copying_pbf"} -> Lead
    [] OTHER -> Lead + (fmt - 1)

Base == (src - 1) * Each

Clock ==
  /\ pc \in {"filtering", "excluding", "reducing", "exporting", "folding", "fields",
             "converting", "placing", "copying", "reporting"} => ticking
  /\ pc \notin {"reporting", "end"} => index = Base + Offset
  /\ pc = "reporting" => index = Every

Credit ==
  /\ \A t \in timed : t.shown = t.done
  /\ {t.shown : t \in timed} = {Phases[n] : n \in 1..index}

PhaseInv ==
  empty = {} => Clock /\ Credit /\ (status = "done" => index = Len(Phases))

LEMMA JobDecidesSteps ==
  ASSUME UNCHANGED job
  PROVE  /\ Phases' = Phases /\ Each' = Each /\ Lead' = Lead /\ Every' = Every
<1>1. StepsOfSource' = StepsOfSource /\ Reduces' = Reduces
  BY DEF StepsOfSource, Reduces
<1> QED
  BY <1>1, JobDecides DEF Each, Lead, Every

\* The phase at the index is that of the work at hand.
LEMMA AtWork ==
  ASSUME TypeOK, Places, Clock
  PROVE  /\ pc \notin {"reporting", "end"} => index < Len(Phases)
         /\ pc = "filtering" => Phases[index + 1] = Work("filter", "pbf")
         /\ pc = "excluding" => Phases[index + 1] = Work("exclude", "pbf")
         /\ pc = "reducing" => Phases[index + 1] = Work("reduce", "pbf")
         /\ pc \in InFormat => Phases[index + 1] = Work("export_convert", Format)
         /\ pc = "reporting" => index < Len(Phases) /\ Phases[index + 1] = ReportPhase
<1>1. /\ job \in Requests /\ src \in 1..Len(job.sources) + 1 /\ fmt \in 1..Len(job.exports) + 1
      /\ index \in Nat
  BY PhasesLength DEF TypeOK
<1>2. /\ Len(job.exports) \in Nat /\ Len(job.sources) \in Nat
      /\ Each = Lead + Len(job.exports) /\ Each \in Nat \ {0} /\ Lead \in 1..3
      /\ Every \in Nat /\ Len(Phases) = Every + 1
  BY <1>1, RequestFacts, StepsInOrder, PhasesInOrder
<1>3. pc = "reporting" => index < Len(Phases) /\ Phases[index + 1] = ReportPhase
  BY <1>1, <1>2, PhasesInOrder DEF Clock
<1>4. ASSUME src <= Len(job.sources), NEW k \in 0..(Each - 1), index = Base + k
      PROVE  /\ index < Len(Phases)
             /\ Phases[index + 1] =
                  PhaseOf(Source, StepsOfSource[k + 1].step, StepsOfSource[k + 1].fmt)
  <2>1. src \in 1..Len(job.sources)
    BY <1>1, <1>2, <1>4
  <2>2. /\ index \in 0..(Every - 1)
        /\ Phases[index + 1] =
             PhaseOf(job.sources[src], StepsOfSource[k + 1].step, StepsOfSource[k + 1].fmt)
    BY <1>1, <1>4, <2>1, PhasesInOrder DEF Base
  <2> QED
    BY <1>2, <2>2 DEF Source
<1>5. CASE pc = "source"
  <2>1. index = (src - 1) * Each
    <3>1. index = Base + 0
      BY <1>5 DEF Clock, Offset
    <3> QED
      BY <1>1, <1>2, <3>1 DEF Base
  <2>2. index <= Every
    <3>1. src - 1 \in Nat /\ src - 1 <= Len(job.sources)
      BY <1>1, <1>2
    <3> QED
      BY <1>2, <2>1, <3>1, RowsGrow DEF Every
  <2>3. index < Len(Phases)
    BY <1>1, <1>2, <2>2
  <2> QED
    BY <1>5, <2>3 DEF InFormat, Exporting
<1>6. CASE pc = "filtering"
  <2>1. index = Base + 0 /\ src <= Len(job.sources) /\ 0 \in 0..(Each - 1) /\ 0 + 1 = 1
    BY <1>2, <1>6 DEF Clock, Offset, Places
  <2> QED
    BY <1>1, <1>4, <1>6, <2>1, StepsInOrder DEF StepFor, Work, InFormat, Exporting
<1>7. CASE pc \in {"exclude", "excluding"}
  <2>1. index = Base + 1 /\ src <= Len(job.sources) /\ job.exclude
    BY <1>7 DEF Clock, Offset, Places, Working
  <2>2. CASE 1 \in 0..(Each - 1)
    BY SMTT(30), <1>1, <1>4, <1>7, <2>1, <2>2, StepsInOrder DEF StepFor, Work, InFormat, Exporting
  <2>3. CASE 1 \notin 0..(Each - 1)
    <3>1. Lead >= 2
      BY <2>1 DEF Lead
    <3> QED
      BY <1>2, <2>3, <3>1
  <2> QED
    BY <2>2, <2>3
<1>8. CASE pc \in {"reduce", "reducing"}
  <2>1. index = Base + (Lead - 1) /\ src <= Len(job.sources) /\ Reduces
    BY <1>8 DEF Clock, Offset, Places, Working
  <2>2. Lead - 1 \in 0..(Each - 1) /\ (Lead - 1) + 1 = Lead
    BY <1>2
  <2>3. StepsOfSource[Lead] = StepFor("reduce", "pbf")
    BY <1>1, <2>1, StepsInOrder
  <2>4. /\ index < Len(Phases)
        /\ Phases[index + 1] = PhaseOf(Source, StepsOfSource[Lead].step, StepsOfSource[Lead].fmt)
    BY <1>4, <2>1, <2>2
  <2> QED
    BY <1>8, <2>3, <2>4 DEF StepFor, Work, InFormat, Exporting
<1>9. CASE pc \in {"place_pbf", "copying_pbf", "export"}
  <2>1. src <= Len(job.sources) /\ index = Base + Offset
    BY <1>9 DEF Clock, Places, Working, Exporting
  <2>2. Offset \in 0..Each
    <3>1. Offset = Lead \/ Offset = Lead + (fmt - 1)
      BY <1>9 DEF Offset
    <3> QED
      BY <1>1, <1>2, <3>1
  <2>3. Base + Each <= Every
    <3>1. src - 1 \in Nat /\ (src - 1) + 1 = src /\ src \in Nat
      BY <1>1, <1>2
    <3>2. Base + Each = src * Each
      BY <1>2, <3>1, RowsGrow DEF Base
    <3>3. src * Each <= Every
      BY <1>2, <2>1, <3>1, RowsGrow DEF Every
    <3> QED
      BY <3>2, <3>3
  <2>4. Base \in Nat
    <3>1. src - 1 \in Nat
      BY <1>1, <1>2
    <3> QED
      BY <1>2, <3>1, RowsGrow DEF Base
  <2> QED
    BY <1>2, <1>9, <2>1, <2>2, <2>3, <2>4 DEF InFormat, Exporting
<1>10. CASE pc \in InFormat
  <2>1. /\ index = Base + (Lead + (fmt - 1))
        /\ src <= Len(job.sources) /\ fmt \in 1..Len(job.exports)
    BY SMTT(30), <1>1, <1>2, <1>10 DEF Clock, Offset, Places, InFormat, Exporting
  <2>2. Lead + (fmt - 1) \in 0..(Each - 1) /\ (Lead + (fmt - 1)) + 1 = Lead + fmt
    BY <1>1, <1>2, <2>1
  <2>3. StepsOfSource[Lead + fmt] = StepFor("export_convert", Format)
    BY <1>1, <2>1, StepsInOrder DEF Format
  <2> QED
    BY <1>4, <1>10, <2>1, <2>2, <2>3 DEF StepFor, Work, InFormat, Exporting
<1>11. CASE pc \in {"reporting", "end"}
  BY <1>3, <1>11 DEF InFormat, Exporting
<1> QED
  BY <1>5, <1>6, <1>7, <1>8, <1>9, <1>10, <1>11 DEF TypeOK, InFormat, Exporting

\* Work that is timed under its own phase moves the books on by that phase.
LEMMA FinishInOrder ==
  ASSUME TypeOK, Credit, ticking, index < Len(Phases), UNCHANGED job,
         NEW done, done = Phases[index + 1], FinishPhase(done)
  PROVE  index' = index + 1 /\ Credit'
<1>1. /\ timed' = timed \union {[shown |-> done, done |-> done]} /\ index' = index + 1
      /\ Phases' = Phases
  BY JobDecidesSteps DEF FinishPhase
<1>2. index \in Nat
  BY PhasesLength DEF TypeOK
<1>3. {t.shown : t \in timed'} = {t.shown : t \in timed} \union {done}
  <2> DEFINE entry == [shown |-> done, done |-> done]
  <2>1. entry.shown = done /\ timed' = timed \union {entry}
    BY <1>1
  <2> HIDE DEF entry
  <2> QED
    BY <2>1
<1>4. {Phases[n] : n \in 1..index + 1} = {Phases[n] : n \in 1..index} \union {Phases[index + 1]}
  <2>1. 1..index + 1 = (1..index) \union {index + 1}
    BY <1>2
  <2> QED
    BY <2>1
<1>5. \A t \in timed' : t.shown = t.done
  BY <1>1 DEF Credit
<1>6. {t.shown : t \in timed'} = {Phases'[n] : n \in 1..index'}
  <2>1. {Phases'[n] : n \in 1..index'} = {Phases[n] : n \in 1..index + 1}
    BY <1>1
  <2>2. {t.shown : t \in timed} = {Phases[n] : n \in 1..index}
    BY DEF Credit
  <2> QED
    BY <1>3, <1>4, <2>1, <2>2
<1> QED
  BY <1>1, <1>5, <1>6 DEF Credit

LEMMA SameCredit ==
  ASSUME Credit, UNCHANGED <<job, timed, index>>
  PROVE  Credit'
BY JobDecidesSteps DEF Credit

LEMMA PhaseInvInductive ==
  ASSUME PipelineInv, Behind, PhaseInv, [Next]_vars
  PROVE  PhaseInv'
<1> SUFFICES ASSUME empty' = {}
             PROVE  Clock' /\ Credit' /\ (status' = "done" => index' = Len(Phases)')
  BY DEF PhaseInv
<1>1. TypeOK /\ Places
  BY DEF PipelineInv, Held
<1>2. /\ job \in Requests /\ src \in Nat \ {0} /\ fmt \in Nat \ {0}
      /\ fmt <= Len(job.exports) + 1 /\ Len(job.exports) \in Nat
      /\ index \in Nat
  BY <1>1, RequestFacts, PhasesLength DEF TypeOK
<1>3. Each = Lead + Len(job.exports) /\ Each \in Nat \ {0} /\ Lead \in 1..3
  BY <1>2, StepsInOrder
<1>4. empty = {} /\ job' = job
  BY DEF Next, BeginSource, Filter, BeginPass, Exclude, Reduce, PlacePbf,
         BeginExport, Export, ExportEmpty, Fold, GetFields, Convert, PlaceExport,
         BeginCopy, EndSource, BeginReports, WriteReports, Fail, ReplaceSource, vars, notes
<1>5. Clock /\ Credit /\ (status = "done" => index = Len(Phases))
  BY <1>4 DEF PhaseInv
<1>6. /\ Phases' = Phases /\ Each' = Each /\ Lead' = Lead /\ Every' = Every
      /\ (src' = src => Base' = Base)
      /\ (src' = src + 1 => Base' = Base + Each)
  <2>1. Phases' = Phases /\ Each' = Each /\ Lead' = Lead /\ Every' = Every
    BY <1>4, JobDecidesSteps
  <2>2. src' = src + 1 => Base' = Base + Each
    <3>1. src - 1 \in Nat /\ (src - 1) + 1 = src /\ (src + 1) - 1 = src
      BY <1>2
    <3>2. src * Each = (src - 1) * Each + Each
      BY <1>3, <3>1, RowsGrow
    <3>3. src' = src + 1 => Base' = src * Each
      BY <2>1, <3>1 DEF Base
    <3> QED
      BY <3>2, <3>3 DEF Base
  <2> QED
    BY <2>1, <2>2 DEF Base
<1>7. pc # "end" => status = "running"
  BY DEF Behind
<1>8. Base \in Nat
  <2>1. src - 1 \in Nat
    BY <1>2
  <2> QED
    BY <1>3, <2>1, RowsGrow DEF Base
<1>9. CASE BeginSource
  <2>1. index = Base /\ index < Len(Phases)
    BY <1>1, <1>5, <1>8, <1>9, AtWork DEF BeginSource, Clock, Offset
  <2>2. /\ pc' = "filtering" /\ ticking' /\ UNCHANGED <<index, timed, src, status>> /\ pc # "end"
    BY <1>9, <2>1 DEF BeginSource, StartPhase, Goto, notes
  <2>3. Offset' = 0
    BY <2>2 DEF Offset
  <2> QED
    BY <1>4, <1>5, <1>6, <1>7, <1>8, <2>1, <2>2, <2>3, SameCredit DEF Clock
<1>10. CASE Filter
  <2>1. ticking /\ index < Len(Phases) /\ Phases[index + 1] = Work("filter", "pbf") /\ index = Base
    BY <1>1, <1>5, <1>8, <1>10, AtWork DEF Filter, Clock, Offset
  <2>2. index' = index + 1 /\ Credit'
    BY <1>1, <1>4, <1>5, <1>10, <2>1, FinishInOrder DEF Filter
  <2>3. pc' = AfterFilter /\ UNCHANGED <<src, fmt, status>> /\ fmt = 1 /\ pc # "end"
    BY <1>1, <1>10 DEF Filter, Goto, notes, Places
  <2>4. pc' \in {"exclude", "reduce", "place_pbf", "export"} /\ Offset' = 1
    BY <1>6, <2>3 DEF Offset, AfterFilter, AfterExclude, Lead
  <2> QED
    BY <1>6, <1>7, <2>1, <2>2, <2>3, <2>4 DEF Clock
<1>11. CASE BeginPass
  <2>1. index = Base + Offset /\ index < Len(Phases)
    BY <1>1, <1>5, <1>11, AtWork DEF BeginPass, Clock
  <2>2. /\ (pc = "exclude" /\ pc' = "excluding") \/ (pc = "reduce" /\ pc' = "reducing")
        /\ ticking' /\ UNCHANGED <<index, timed, src, status>> /\ pc # "end"
    <3>1. (pc = "exclude" /\ pc' = "excluding") \/ (pc = "reduce" /\ pc' = "reducing")
      BY <1>11 DEF BeginPass, Goto
    <3>2. StartPhase /\ UNCHANGED <<src, status>>
      BY <1>11 DEF BeginPass, notes
    <3>3. ticking' = TRUE /\ UNCHANGED <<index, timed>>
      BY <2>1, <3>2 DEF StartPhase
    <3> QED
      BY <3>1, <3>2, <3>3
  <2>3. Offset' = Offset
    BY <1>6, <2>2 DEF Offset
  <2> QED
    BY <1>4, <1>5, <1>6, <1>7, <2>1, <2>2, <2>3, SameCredit DEF Clock
<1>12. CASE Exclude
  <2>1. /\ ticking /\ index < Len(Phases) /\ Phases[index + 1] = Work("exclude", "pbf")
        /\ index = Base + 1
    BY <1>1, <1>5, <1>12, AtWork DEF Exclude, Clock, Offset
  <2>2. index' = index + 1 /\ Credit'
    BY <1>1, <1>4, <1>5, <1>12, <2>1, FinishInOrder DEF Exclude
  <2>3. /\ pc' = AfterExclude /\ UNCHANGED <<src, fmt, status>> /\ fmt = 1 /\ pc # "end"
        /\ job.exclude
    BY <1>1, <1>12 DEF Exclude, Goto, notes, Places, Working
  <2>4. pc' \in {"reduce", "place_pbf", "export"} /\ Offset' = 2
    BY <1>6, <2>3 DEF Offset, AfterExclude, Lead
  <2> QED
    BY <1>6, <1>7, <1>8, <2>1, <2>2, <2>3, <2>4 DEF Clock
<1>13. CASE Reduce
  <2>1. /\ ticking /\ index < Len(Phases) /\ Phases[index + 1] = Work("reduce", "pbf")
        /\ index = Base + (Lead - 1)
    BY <1>1, <1>5, <1>13, AtWork DEF Reduce, Clock, Offset
  <2>2. index' = index + 1 /\ Credit'
    BY <1>1, <1>4, <1>5, <1>13, <2>1, FinishInOrder DEF Reduce
  <2>3. pc' = "place_pbf" /\ UNCHANGED <<src, status>> /\ pc # "end"
    BY <1>13 DEF Reduce, Goto, notes
  <2>4. Offset' = Lead
    BY <1>6, <2>3 DEF Offset
  <2> QED
    BY <1>3, <1>6, <1>7, <1>8, <2>1, <2>2, <2>3, <2>4 DEF Clock
<1>14. CASE PlacePbf
  <2>1. index = Base + Lead /\ fmt = 1
    BY <1>1, <1>5, <1>14 DEF PlacePbf, Clock, Offset, Places, Working
  <2>2. pc' = "export" /\ UNCHANGED <<index, timed, src, fmt, status>> /\ pc # "end"
    BY <1>14 DEF PlacePbf, Goto, notes, books
  <2>3. Offset' = Lead
    BY <1>3, <1>6, <2>1, <2>2 DEF Offset
  <2> QED
    BY <1>4, <1>5, <1>6, <1>7, <2>1, <2>2, <2>3, SameCredit DEF Clock
<1>15. CASE BeginExport
  <2>1. index = Base + Offset /\ index < Len(Phases)
    BY <1>1, <1>5, <1>15, AtWork DEF BeginExport, Clock
  <2>2. /\ pc = "export" /\ pc' \in {"exporting", "converting"}
        /\ ticking' /\ UNCHANGED <<index, timed, src, fmt, status>>
    BY <1>15, <2>1 DEF BeginExport, StartPhase, Goto, notes
  <2>3. Offset' = Offset
    BY <1>6, <2>2 DEF Offset
  <2> QED
    BY <1>4, <1>5, <1>6, <1>7, <2>1, <2>2, <2>3, SameCredit DEF Clock
<1>16. CASE Export \/ Fold \/ GetFields \/ Convert
  <2>1. /\ pc \in {"exporting", "folding", "fields", "converting"}
        /\ pc' \in {"folding", "fields", "converting", "placing"}
        /\ UNCHANGED <<index, timed, ticking, src, fmt, status>>
    BY <1>16 DEF Export, Fold, GetFields, Convert, Goto, notes, books
  <2>2. Offset' = Offset
    BY <1>6, <2>1 DEF Offset
  <2>3. ticking /\ index = Base + Offset
    BY <1>5, <2>1 DEF Clock
  <2> QED
    BY <1>4, <1>5, <1>6, <1>7, <2>1, <2>2, <2>3, SameCredit DEF Clock
<1>17. CASE ExportEmpty
  BY <1>17 DEF ExportEmpty
<1>18. CASE PlaceExport
  <2>1. /\ ticking /\ index < Len(Phases) /\ Phases[index + 1] = Work("export_convert", Format)
        /\ index = Base + (Lead + (fmt - 1))
    BY <1>1, <1>5, <1>18, AtWork DEF PlaceExport, Clock, Offset, InFormat, Exporting
  <2>2. index' = index + 1 /\ Credit'
    BY <1>1, <1>4, <1>5, <1>18, <2>1, FinishInOrder DEF PlaceExport
  <2>3. pc' = "export" /\ src' = src /\ fmt' = fmt + 1 /\ status' = status /\ pc # "end"
    BY <1>18 DEF PlaceExport, Goto, notes
  <2>4. Offset' = Lead + fmt
    BY <1>2, <1>6, <2>3 DEF Offset
  <2>5. index' = Base' + Offset'
    BY <1>2, <1>3, <1>6, <1>8, <2>1, <2>2, <2>3, <2>4
  <2> QED
    BY <1>7, <2>2, <2>3, <2>5 DEF Clock
<1>19. CASE EndSource
  <2>1. index = Base + (Lead + (fmt - 1)) /\ fmt > Len(job.exports)
    BY <1>5, <1>19 DEF EndSource, Clock, Offset
  <2>2. pc' = "source" /\ src' = src + 1 /\ UNCHANGED <<index, timed, status>> /\ pc # "end"
    BY <1>19 DEF EndSource, NextSource, Goto, notes, books
  <2>3. Offset' = 0
    BY <2>2 DEF Offset
  <2>4. index' = Base' + 0
    BY <1>2, <1>3, <1>6, <1>8, <2>1, <2>2
  <2> QED
    BY <1>4, <1>5, <1>7, <2>2, <2>3, <2>4, SameCredit DEF Clock
<1>20. CASE BeginReports
  <2>1. index = Base /\ index < Len(Phases)
    BY <1>1, <1>5, <1>8, <1>20, AtWork DEF BeginReports, Clock, Offset
  <2>2. Base = Every
    <3>1. src - 1 = Len(job.sources)
      BY <1>1, <1>2, <1>20, RequestFacts DEF BeginReports, TypeOK
    <3> QED
      BY <3>1 DEF Base, Every
  <2>3. pc' = "reporting" /\ ticking' /\ UNCHANGED <<index, timed, status>> /\ pc # "end"
    BY <1>20, <2>1 DEF BeginReports, StartPhase, Goto, notes
  <2> QED
    BY <1>4, <1>5, <1>6, <1>7, <2>1, <2>2, <2>3, SameCredit DEF Clock
<1>21. CASE WriteReports
  <2>1. /\ ticking /\ index < Len(Phases) /\ Phases[index + 1] = ReportPhase
        /\ index = Every
    BY <1>1, <1>5, <1>21, AtWork DEF WriteReports, Clock
  <2>2. index' = index + 1 /\ Credit'
    BY <1>1, <1>4, <1>5, <1>21, <2>1, FinishInOrder DEF WriteReports
  <2>3. pc' = "end"
    BY <1>21 DEF WriteReports, Goto
  <2> QED
    BY <1>2, <1>6, <2>1, <2>2, <2>3, PhasesInOrder DEF Clock
<1>22. CASE Fail
  <2>1. pc' = "end" /\ status' = "error" /\ UNCHANGED <<index, timed>>
    BY <1>22 DEF Fail, Goto
  <2> QED
    BY <1>4, <1>5, <2>1, SameCredit DEF Clock
<1>23. CASE ReplaceSource \/ UNCHANGED vars
  <2>1. UNCHANGED <<pc, src, fmt, index, ticking, timed, status>>
    BY <1>23 DEF ReplaceSource, vars, books, notes
  <2>2. Offset' = Offset
    BY <1>6, <2>1 DEF Offset
  <2> QED
    BY <1>4, <1>5, <1>6, <2>1, <2>2, SameCredit DEF Clock
<1>24. CASE BeginCopy
  <2>1. /\ \/ pc = "place_pbf" /\ pc' = "copying_pbf"
           \/ pc = "placing" /\ pc' = "copying"
        /\ UNCHANGED <<index, timed, ticking, src, fmt, status>>
    BY <1>24 DEF BeginCopy, Goto, notes, books
  <2>2. Offset' = Offset
    BY <1>6, <2>1 DEF Offset
  <2>3. index = Base + Offset /\ (pc = "placing" => ticking)
    BY <1>5, <2>1 DEF Clock
  <2> QED
    BY <1>4, <1>5, <1>6, <1>7, <2>1, <2>2, <2>3, SameCredit DEF Clock
<1> QED
  BY <1>9, <1>10, <1>11, <1>12, <1>13, <1>14, <1>15, <1>16, <1>17, <1>18, <1>19, <1>20,
     <1>21, <1>22, <1>23, <1>24
     DEF Next

\* As long as every source has matched something, each phase is shown and timed
\* for the work it is named after, and a job that is done has timed them all
\* (_build_phases, _start_phase and _finish_phase), for any request.
THEOREM PhasesAreNamed == Spec => []PhasesTellTheWork
<1>1. Init => Behind /\ PhaseInv
  <2> SUFFICES ASSUME Init PROVE Behind /\ PhaseInv
    OBVIOUS
  <2>1. Behind
    BY DEF Init, Behind, Exporting
  <2>2. job \in Requests
    BY DEF Init
  <2>3. Base = 0 /\ Offset = 0 /\ index = 0
    <3>1. Each \in Nat
      BY <2>2, StepsInOrder
    <3>2. Base = 0
      BY <3>1 DEF Init, Base
    <3> QED
      BY <3>2 DEF Init, Offset
  <2>4. Clock
    BY <2>3 DEF Init, Clock
  <2>5. Credit
    <3>1. 1..index = {}
      BY <2>3
    <3> QED
      BY <3>1 DEF Init, Credit
  <2> QED
    BY <2>1, <2>4, <2>5 DEF Init, PhaseInv
<1>2. PipelineInv /\ Behind /\ PhaseInv /\ [Next]_vars => Behind' /\ PhaseInv'
  BY BehindIsInductive, PhaseInvInductive
<1>3. PhaseInv => PhasesTellTheWork
  BY DEF PhaseInv, Credit, PhasesTellTheWork
<1> QED
  BY <1>1, <1>2, <1>3, PipelineInvHolds, PTL DEF Spec

(***************************************************************************)
(* The reports.                                                            *)
(***************************************************************************)
Last == job.sources[Len(job.sources)]

\* The figure at hand is that of the export that was made last, ...
Told ==
  /\ pc \in {"folding", "fields", "converting", "placing", "copying"} =>
       errors = dropped[Source]
  /\ pc = "export" /\ (fmt > 1 \/ shared # Absent) => errors = dropped[Source]
  /\ pc \in {"source", "reporting"} /\ src > Len(job.sources)
       /\ job.exports # <<>> /\ job.sources # <<>> => errors = dropped[Last]
  /\ \A p \in outputs : p[2] \in Exports => job.exports # <<>> /\ job.sources # <<>>

\* ... no file was made of a build that is not there yet, ...
Dated ==
  /\ work # Absent => work.build <= build[work.from]
  /\ shared # Absent => shared.build <= build[shared.from]
  /\ \A p \in outputs : final[p].build <= build[p[1]]

\* ... and no report is written before the end.
Unreported == pc # "end" => \A p \in Paths : report[p] = NoReport

LEMMA MadeFacts ==
  ASSUME NEW file \in Made
  PROVE  /\ file # Absent /\ file # Copied
         /\ file.build \in 0..MaxBuild /\ file.from \in Sources
<1>1. \A a, b : a = b => DOMAIN a = DOMAIN b
  OBVIOUS
<1>2. DOMAIN file = {"from", "build", "passes"} /\ DOMAIN Absent = {"from"}
      /\ DOMAIN Copied = {"from"}
  BY DEF Made, Absent, Copied
<1>3. file # Absent /\ file # Copied
  BY <1>1, <1>2
<1> QED
  BY <1>3 DEF Made

LEMMA PassKeepsTheDate ==
  ASSUME NEW file \in Made, NEW pass \in Passes
  PROVE  /\ After(file, pass) \in Made
         /\ After(file, pass).build = file.build /\ After(file, pass).from = file.from
BY DEF Made, After

LEMMA NothingIsOlder ==
  ASSUME TypeOK, TypeOK', [Next]_vars
  PROVE  \A s \in Sources : build[s] <= build'[s] /\ build[s] \in Nat /\ build'[s] \in Nat
<1>1. ASSUME NEW s \in Sources PROVE build[s] \in Nat /\ build'[s] \in Nat
  BY BoundsAssumption DEF TypeOK
<1>2. CASE ReplaceSource
  BY <1>1, <1>2 DEF ReplaceSource, TypeOK
<1>3. CASE ~ ReplaceSource
  <2>1. build' = build
    BY <1>3 DEF Next, BeginSource, Filter, BeginPass, Exclude, Reduce, PlacePbf,
         BeginExport, Export, ExportEmpty, Fold, GetFields, Convert, PlaceExport,
         BeginCopy, EndSource, BeginReports, WriteReports, Fail, vars
  <2> QED
    BY <1>1, <2>1
<1> QED
  BY <1>2, <1>3

\* What is not made anew has become no younger.
LEMMA DatedStays ==
  ASSUME TypeOK, TypeOK', Dated, [Next]_vars,
         NEW file \in Made, file.build <= build[file.from]
  PROVE  file.build <= build'[file.from]
<1>1. file.from \in Sources /\ file.build \in Nat
  BY MadeFacts, BoundsAssumption
<1> QED
  BY <1>1, NothingIsOlder

LEMMA DatedStep ==
  ASSUME PipelineInv, PipelineInv', Dated, [Next]_vars
  PROVE  Dated'
<1>1. TypeOK /\ TypeOK' /\ Held /\ Finished /\ Finished'
  BY DEF PipelineInv
<1>2. /\ work \in Made \union {Absent} /\ shared \in Made \union {Absent}
      /\ outputs \subseteq Paths
  BY <1>1 DEF TypeOK
<1>3. \A p \in outputs : final[p] \in Made /\ final[p].from = p[1] /\ p[1] \in Sources
  BY <1>1, <1>2 DEF Finished, Paths
<1>4. /\ work # Absent => work \in Made /\ work.build <= build'[work.from]
      /\ shared # Absent => shared \in Made /\ shared.build <= build'[shared.from]
      /\ \A p \in outputs : final[p].build <= build'[p[1]]
  <2>1. work # Absent => work.build <= build'[work.from]
    BY <1>1, <1>2, DatedStays DEF Dated
  <2>2. shared # Absent => shared.build <= build'[shared.from]
    BY <1>1, <1>2, DatedStays DEF Dated
  <2>3. ASSUME NEW p \in outputs PROVE final[p].build <= build'[p[1]]
    <3>1. final[p] \in Made /\ final[p].build <= build[final[p].from]
      BY <1>3 DEF Dated
    <3> QED
      BY <1>1, <1>3, <3>1, DatedStays
  <2> QED
    BY <1>2, <2>1, <2>2, <2>3
<1>5. CASE UNCHANGED <<final, outputs>>
  <2>1. \A p \in outputs' : final'[p].build <= build'[p[1]]
    BY <1>4, <1>5
  <2>2. work' # Absent => work'.build <= build'[work'.from]
    <3>1. CASE Filter
      <4>1. Source \in Sources /\ build[Source] \in 0..MaxBuild
        BY <1>1, <3>1, RequestFacts DEF Filter, Held, Places, TypeOK, Source
      <4>2. work'.build = build[Source] /\ work'.from = Source
        BY <3>1 DEF Filter
      <4> QED
        BY <1>1, <4>1, <4>2, NothingIsOlder
    <3>2. CASE Exclude \/ Reduce
      <4>1. PICK pass \in Passes : work' = After(work, pass)
        BY <3>2 DEF Exclude, Reduce, Passes
      <4>2. work \in Made /\ work # Absent
        BY <1>1, <3>2, MadeFacts DEF Exclude, Reduce, Held, WorkHeld, Working, IsOf
      <4> QED
        BY <1>4, <4>1, <4>2, PassKeepsTheDate
    <3>3. CASE work' = Absent \/ work' = work
      BY <1>4, <3>3
    <3>4. Filter \/ Exclude \/ Reduce \/ work' = Absent \/ work' = work
      BY DEF Next, BeginSource, BeginPass, PlacePbf, BeginExport, Export, ExportEmpty,
           Fold, GetFields, Convert, PlaceExport, BeginCopy, EndSource, BeginReports,
           WriteReports, Fail,
           ReplaceSource, NextSource, vars, files
    <3> QED
      BY <3>1, <3>2, <3>3, <3>4
  <2>3. shared' # Absent => shared'.build <= build'[shared'.from]
    <3>1. CASE Export
      <4>1. Intermediate \in Made /\ Intermediate.build <= build'[Intermediate.from]
        <5>1. CASE job.pbf
          <6>1. <<Source, "pbf">> \in outputs /\ Intermediate = final[<<Source, "pbf">>]
            BY <1>1, <3>1, <5>1 DEF Export, Held, WorkHeld, Exporting, Intermediate
          <6> QED
            BY <1>3, <1>4, <6>1
        <5>2. CASE ~ job.pbf
          <6>1. work \in Made /\ Intermediate = work
            BY <1>1, <3>1, <5>2
               DEF Export, Held, WorkHeld, Exporting, IsOf, Intermediate
          <6> QED
            BY <1>4, <6>1, MadeFacts
        <5> QED
          BY <5>1, <5>2
      <4>2. shared' = After(Intermediate, "export")
        BY <3>1 DEF Export
      <4> QED
        BY <4>1, <4>2, PassKeepsTheDate DEF Passes
    <3>2. CASE Fold
      <4>1. shared \in Made /\ shared # Absent
        BY <1>1, <3>2, MadeFacts DEF Fold, Held, SharedHeld, IsOf
      <4>2. shared' = After(shared, "fold")
        BY <3>2 DEF Fold
      <4> QED
        BY <1>4, <4>1, <4>2, PassKeepsTheDate DEF Passes
    <3>5. CASE GetFields
      <4>1. shared \in Made /\ shared # Absent
        BY <1>1, <3>5, MadeFacts DEF GetFields, Held, SharedHeld, IsOf
      <4>2. shared' = shared \/ shared' = After(shared, "columns")
        BY <3>5 DEF GetFields
      <4> QED
        BY <1>4, <4>1, <4>2, PassKeepsTheDate DEF Passes
    <3>3. CASE shared' = Absent \/ shared' = shared
      BY <1>4, <3>3
    <3>4. Export \/ Fold \/ GetFields \/ shared' = Absent \/ shared' = shared
      BY DEF Next, BeginSource, Filter, BeginPass, Exclude, Reduce, PlacePbf,
           BeginExport, ExportEmpty, Convert, PlaceExport, BeginCopy, EndSource, BeginReports,
           WriteReports, Fail, ReplaceSource, NextSource, vars, files
    <3> QED
      BY <3>1, <3>2, <3>3, <3>4, <3>5
  <2> QED
    BY <2>1, <2>2, <2>3 DEF Dated
<1>6. ASSUME NEW file \in Made, file.build <= build'[file.from],
             NEW f \in Formats, Publish(<<Source, f>>, file), file.from = Source
      PROVE  \A p \in outputs' : final'[p].build <= build'[p[1]]
  <2>1. /\ final' = [final EXCEPT ![<<Source, f>>] = file]
        /\ outputs' = outputs \union {<<Source, f>>}
    BY <1>6 DEF Publish
  <2>2. final \in [Paths -> Made \union {Absent, Old, Copied}] /\ outputs' \subseteq Paths
    BY <1>1 DEF TypeOK
  <2>3. \A p \in Paths : final'[p] = IF p = <<Source, f>> THEN file ELSE final[p]
    BY <2>1, <2>2
  <2> QED
    BY <1>4, <1>6, <2>1, <2>2, <2>3
<1>7. CASE PlacePbf
  <2>1. work \in Made /\ work.from = Source /\ work # Absent
    BY <1>1, <1>7, MadeFacts DEF PlacePbf, Held, WorkHeld, Working, IsOf
  <2>2. \A p \in outputs' : final'[p].build <= build'[p[1]]
    BY <1>4, <1>6, <1>7, <2>1 DEF PlacePbf, Formats
  <2>3. work' = Absent /\ shared' = shared
    BY <1>7 DEF PlacePbf
  <2> QED
    BY <1>4, <2>2, <2>3 DEF Dated
<1>8. CASE PlaceExport
  <2>1. shared \in Made /\ shared.from = Source /\ shared # Absent
    BY <1>1, <1>8, MadeFacts DEF PlaceExport, Held, SharedHeld, IsOf
  <2>2. Format \in Formats
    BY <1>1, <1>8, RequestFacts
       DEF PlaceExport, Held, Places, InFormat, Exporting, TypeOK, Format, Formats
  <2>3. /\ After(shared, "convert") \in Made
        /\ After(shared, "convert").build = shared.build
        /\ After(shared, "convert").from = Source
    BY <2>1, PassKeepsTheDate DEF Passes
  <2>4. \A p \in outputs' : final'[p].build <= build'[p[1]]
    BY <1>4, <1>6, <1>8, <2>1, <2>2, <2>3 DEF PlaceExport
  <2>5. work' = work /\ shared' = shared
    BY <1>8 DEF PlaceExport
  <2> QED
    BY <1>4, <2>4, <2>5 DEF Dated
<1>9. CASE Convert \/ BeginCopy
  <2>1. outputs' = outputs /\ work' = work /\ shared' = shared
    BY <1>9 DEF Convert, BeginCopy
  <2>2. PICK p, file : final' = [final EXCEPT ![p] = file] /\ file \in {Absent, Copied}
    BY <1>9 DEF Convert, BeginCopy
  <2>3. \A q \in outputs : final'[q] = final[q]
    <3>1. \A q \in outputs : q \in Paths /\ final'[q] \in Made
      BY <1>1, <1>2, <2>1 DEF Finished
    <3>2. Absent \notin Made /\ Copied \notin Made
      BY MadeFacts
    <3> QED
      BY <1>1, <2>2, <3>1, <3>2 DEF TypeOK
  <2> QED
    BY <1>4, <2>1, <2>3 DEF Dated
<1>10. PlacePbf \/ PlaceExport \/ Convert \/ BeginCopy \/ UNCHANGED <<final, outputs>>
  BY DEF Next, BeginSource, Filter, BeginPass, Exclude, Reduce, BeginExport, Export,
       ExportEmpty, Fold, GetFields, EndSource, BeginReports, WriteReports, Fail, ReplaceSource,
       vars, files
<1> QED
  BY <1>5, <1>7, <1>8, <1>9, <1>10

LEMMA DropIsNoted ==
  ASSUME TypeOK, NEW n, Drop(n), src \in 1..Len(job.sources)
  PROVE  errors' = dropped'[Source]
<1>1. Source \in Sources
  BY RequestFacts DEF TypeOK, Source
<1> QED
  BY <1>1 DEF Drop, TypeOK

\* An export that lies at its path, or is about to, was asked for.
LEMMA ExportWasAskedFor ==
  ASSUME PipelineInv, Told, [Next]_vars
  PROVE  \A p \in outputs' : p[2] \in Exports => job.exports # <<>> /\ job.sources # <<>>
<1>1. TypeOK /\ Held /\ job \in Requests
  BY DEF PipelineInv, TypeOK
<1>2. CASE PlaceExport
  <2>1. fmt \in 1..Len(job.exports) /\ src \in 1..Len(job.sources)
    BY <1>1, <1>2, RequestFacts
       DEF PlaceExport, Held, Places, InFormat, Exporting, TypeOK
  <2> QED
    BY <2>1
<1>3. CASE PlacePbf
  <2>1. outputs' = outputs \union {<<Source, "pbf">>}
    BY <1>3 DEF PlacePbf, Publish
  <2> QED
    BY <2>1 DEF Told, Exports
<1>4. outputs' = outputs \/ PlacePbf \/ PlaceExport
  BY DEF Next, BeginSource, Filter, BeginPass, Exclude, Reduce, BeginExport, Export,
       ExportEmpty, Fold, GetFields, Convert, BeginCopy, EndSource, BeginReports,
       WriteReports, Fail,
       ReplaceSource, vars, files
<1> QED
  BY <1>2, <1>3, <1>4 DEF Told

LEMMA ToldStep ==
  ASSUME PipelineInv, Told, [Next]_vars
  PROVE  Told'
<1>1. TypeOK /\ Held /\ job \in Requests
  BY DEF PipelineInv, TypeOK
<1>2. job' = job /\ Last' = Last
  <2>1. job' = job
    BY NothingIsTakenBack
  <2> QED
    BY <2>1 DEF Last
<1>3. \A p \in outputs' : p[2] \in Exports => job.exports # <<>> /\ job.sources # <<>>
  BY ExportWasAskedFor
<1>4. /\ src \in 1..Len(job.sources) + 1 /\ Len(job.sources) \in Nat
      /\ fmt \in Nat \ {0} /\ Len(job.exports) \in Nat
  BY <1>1, RequestFacts DEF TypeOK
<1>5. pc \in Exporting \union Working \union {"filtering"} => src \in 1..Len(job.sources)
  BY <1>1, <1>4 DEF Held, Places
<1>6. src' = src => Source' = Source
  BY <1>2 DEF Source
<1>7. CASE Export
  <2>1. errors' = dropped'[Source]
    BY <1>1, <1>5, <1>7, DropIsNoted DEF Export, Exporting
  <2>2. src' = src /\ pc' \in {"folding", "fields"}
    BY <1>7 DEF Export, Goto
  <2> QED
    BY <1>2, <1>3, <1>6, <2>1, <2>2 DEF Told
<1>8. CASE ExportEmpty
  <2>1. errors' = dropped'[Source]
    BY <1>1, <1>5, <1>8, DropIsNoted DEF ExportEmpty, Exporting
  <2>2. src' = src + 1 /\ pc' = "source"
    BY <1>8 DEF ExportEmpty, NextSource, Goto
  <2>3. src' > Len(job.sources) => Source = Last
    BY <1>4, <1>5, <1>8, <2>2 DEF ExportEmpty, Exporting, Source, Last
  <2> QED
    BY <1>2, <1>3, <2>1, <2>2, <2>3 DEF Told
<1>9. CASE EndSource
  <2>1. /\ src' = src + 1 /\ pc' = "source" /\ pc = "export" /\ fmt > Len(job.exports)
        /\ errors' = errors /\ dropped' = dropped
    BY <1>9 DEF EndSource, NextSource, Goto, notes
  <2>2. src' > Len(job.sources) => Source = Last
    BY <1>4, <1>5, <2>1 DEF Exporting, Source, Last
  <2>3. job.exports # <<>> => errors = dropped[Source]
    <3>1. job.exports # <<>> => Len(job.exports) > 0
      BY <1>1, <1>4, RequestFacts, EmptySeq
    <3> QED
      BY <1>4, <2>1, <3>1 DEF Told
  <2> QED
    BY <1>2, <1>3, <2>1, <2>2, <2>3 DEF Told
<1>10. CASE PlaceExport
  <2>1. /\ pc \in {"placing", "copying"} /\ pc' = "export" /\ src' = src
        /\ errors' = errors /\ dropped' = dropped
    BY <1>10 DEF PlaceExport, Goto, notes
  <2> QED
    BY <1>2, <1>3, <1>6, <2>1 DEF Told
<1>11. CASE BeginExport \/ Fold \/ GetFields \/ Convert
  <2>1. /\ \/ pc = "export" /\ pc' = "exporting"
           \/ pc = "export" /\ shared # Absent /\ pc' = "converting"
           \/ pc \in {"folding", "fields", "converting"} /\ pc' \in {"converting", "placing"}
        /\ src' = src /\ errors' = errors /\ dropped' = dropped
    BY <1>11 DEF BeginExport, Fold, GetFields, Convert, Goto, notes
  <2> QED
    BY <1>2, <1>3, <1>6, <2>1 DEF Told
<1>12. CASE BeginSource \/ Filter \/ BeginPass \/ Exclude \/ Reduce \/ PlacePbf
  <2>1. pc \in Working \union {"source", "filtering"} /\ fmt = 1 /\ shared = Absent
    BY <1>1, <1>12
       DEF BeginSource, Filter, BeginPass, Exclude, Reduce, PlacePbf, Held, Places,
           SharedHeld, Working
  <2>2. fmt' = fmt /\ shared' = shared
    BY <1>12 DEF BeginSource, Filter, BeginPass, Exclude, Reduce, PlacePbf, files
  <2>3. pc' \in Working \union {"filtering", "export"}
    BY <1>12 DEF BeginSource, Filter, BeginPass, Exclude, Reduce, PlacePbf, Goto,
                 AfterFilter, AfterExclude, Working
  <2> QED
    BY <1>2, <1>3, <2>1, <2>2, <2>3 DEF Told, Working
<1>16. CASE BeginCopy
  <2>1. /\ \/ pc = "place_pbf" /\ pc' = "copying_pbf"
           \/ pc = "placing" /\ pc' = "copying"
        /\ src' = src /\ errors' = errors /\ dropped' = dropped
    BY <1>16 DEF BeginCopy, Goto, notes
  <2> QED
    BY <1>2, <1>3, <1>6, <2>1 DEF Told
<1>13. CASE BeginReports
  <2>1. /\ pc = "source" /\ pc' = "reporting" /\ src' = src
        /\ errors' = errors /\ dropped' = dropped
    BY <1>13 DEF BeginReports, Goto, notes
  <2> QED
    BY <1>2, <1>3, <2>1 DEF Told
<1>14. CASE WriteReports \/ Fail
  <2>1. pc' = "end"
    BY <1>14 DEF WriteReports, Fail, Goto
  <2> QED
    BY <1>2, <1>3, <2>1 DEF Told
<1>15. CASE ReplaceSource \/ UNCHANGED vars
  <2>1. UNCHANGED <<pc, src, fmt, shared, errors, dropped>>
    BY <1>15 DEF ReplaceSource, vars, files, notes
  <2> QED
    BY <1>2, <1>3, <1>6, <2>1 DEF Told
<1> QED
  BY <1>7, <1>8, <1>9, <1>10, <1>11, <1>12, <1>13, <1>14, <1>15, <1>16 DEF Next

\* Until the job is over it has written no report; what it writes then is true
\* as far as it goes.
Reported == Unreported /\ LastDroppedIsTold /\ ReportIsNotOlder

LEMMA ReportedStep ==
  ASSUME PipelineInv, Behind, Told, Dated, Reported, [Next]_vars
  PROVE  Reported'
<1>1. TypeOK /\ job \in Requests /\ job' = job
  BY NothingIsTakenBack DEF PipelineInv, TypeOK
<1>2. CASE WriteReports
  <2>1. /\ pc = "reporting" /\ pc' = "end"
        /\ UNCHANGED <<outputs, final, build, errors, dropped>>
    BY <1>2 DEF WriteReports, Goto, files
  <2>2. \A p \in Paths : report[p] = NoReport
    BY <2>1 DEF Reported, Unreported
  <2>3. PICK written \in SUBSET outputs :
          report' = [p \in Paths |-> IF p \in written THEN Report(p) ELSE report[p]]
    BY <1>2 DEF WriteReports
  <2>4. \A p \in outputs :
          report'[p] # NoReport => report'[p].data = build[p[1]] /\ report'[p].dropped = errors
    <3> SUFFICES ASSUME NEW p \in outputs, report'[p] # NoReport
                 PROVE  report'[p].data = build[p[1]] /\ report'[p].dropped = errors
      OBVIOUS
    <3>1. p \in Paths
      BY <1>1 DEF TypeOK
    <3>2. report'[p] = Report(p)
      BY <2>2, <2>3, <3>1
    <3> QED
      BY <3>2 DEF Report
  <2>5. LastDroppedIsTold'
    <3>1. job.exports # <<>> /\ job.sources # <<>> => errors = dropped[Last]
      BY <2>1 DEF Told, Behind
    <3>2. \A p \in outputs : p[2] \in Exports => job.exports # <<>> /\ job.sources # <<>>
      BY DEF Told
    <3> QED
      BY <1>1, <2>1, <2>4, <3>1, <3>2 DEF LastDroppedIsTold, Last
  <2>6. ReportIsNotOlder'
    <3>1. \A p \in outputs : build[p[1]] <= build[p[1]]
      BY <1>1, BoundsAssumption DEF TypeOK, Paths
    <3> QED
      BY <2>1, <2>4, <3>1 DEF Dated, ReportIsNotOlder
  <2> QED
    BY <2>1, <2>5, <2>6 DEF Reported, Unreported
<1>3. CASE UNCHANGED vars
  BY <1>3 DEF Reported, Unreported, LastDroppedIsTold, ReportIsNotOlder, vars
<1>4. CASE Next /\ ~ WriteReports
  <2>1. pc # "end" /\ report' = report
    BY <1>4 DEF Next, BeginSource, Filter, BeginPass, Exclude, Reduce, PlacePbf,
         BeginExport, Export, ExportEmpty, Fold, GetFields, Convert, PlaceExport,
         BeginCopy, EndSource, BeginReports, Fail, ReplaceSource, notes
  <2>2. \A p \in Paths : report'[p] = NoReport
    BY <2>1 DEF Reported, Unreported
  <2>3. outputs' \subseteq Paths
    <3>1. TypeOK'
      BY PipelineInvInductive DEF PipelineInv
    <3> QED
      BY <3>1 DEF TypeOK
  <2> QED
    BY <2>2, <2>3 DEF Reported, Unreported, LastDroppedIsTold, ReportIsNotOlder
<1> QED
  BY <1>2, <1>3, <1>4

LEMMA ReportsHold == Spec => [](Behind /\ Told /\ Dated /\ Reported)
<1>1. Init => Behind /\ Told /\ Dated /\ Reported
  <2> SUFFICES ASSUME Init PROVE Behind /\ Told /\ Dated /\ Reported
    OBVIOUS
  <2>1. job \in Requests
    BY DEF Init
  <2>2. Behind
    BY DEF Init, Behind, Exporting
  <2>3. Told
    <3>1. Len(job.sources) \in Nat /\ (job.sources # <<>> => Len(job.sources) # 0)
      BY <2>1, RequestFacts, EmptySeq
    <3> QED
      BY <3>1 DEF Init, Told
  <2>4. Dated /\ Reported
    BY DEF Init, Dated, Reported, Unreported, LastDroppedIsTold, ReportIsNotOlder
  <2> QED
    BY <2>2, <2>3, <2>4
<1>2. /\ PipelineInv /\ Behind /\ Told /\ Dated /\ Reported /\ [Next]_vars
      => Behind' /\ Told' /\ Dated' /\ Reported'
  BY PipelineInvInductive, BehindIsInductive, ToldStep, DatedStep, ReportedStep
<1> QED
  BY <1>1, <1>2, PipelineInvHolds, PTL DEF Spec

\* The reports of the source that was exported last say how many features were
\* dropped from it, and with one source every report does: the one figure that
\* _run_subprocess keeps is that of the last export.
THEOREM LastDropIsTold == Spec => []LastDroppedIsTold
<1>1. Reported => LastDroppedIsTold
  BY DEF Reported
<1> QED
  BY <1>1, ReportsHold, PTL

\* The date of a report lies between that of the data in the file and that of
\* the source there is, however often downloads replace the source between the
\* filter and the reports (_source_data_timestamp).
THEOREM ReportsAreNotOlder == Spec => []ReportIsNotOlder
<1>1. Reported => ReportIsNotOlder
  BY DEF Reported
<1> QED
  BY <1>1, ReportsHold, PTL

(***************************************************************************)
(* The job comes to its end.                                               *)
(***************************************************************************)
LEMMA StepsLeftIs ==
  ASSUME UNCHANGED job
  PROVE  LET left(place, s, f, steps) ==
               /\ place = "end" => steps = 0
               /\ place = "reporting" => steps = 1
               /\ place \notin {"end", "reporting"} =>
                    steps = 25 * (Len(job.sources) + 1 - s)
                            + 6 * (Len(job.exports) + 1 - f) + ToDo[place]
         IN  left(pc, src, fmt, StepsLeft) /\ left(pc', src', fmt', StepsLeft')
BY DEF StepsLeft

LEMMA PlacesToGo ==
  /\ ToDo["source"] = 14 /\ ToDo["filtering"] = 13 /\ ToDo["exclude"] = 12
  /\ ToDo["excluding"] = 11 /\ ToDo["reduce"] = 10 /\ ToDo["reducing"] = 9
  /\ ToDo["place_pbf"] = 8 /\ ToDo["copying_pbf"] = 7 /\ ToDo["export"] = 6
  /\ ToDo["exporting"] = 5 /\ ToDo["folding"] = 4 /\ ToDo["fields"] = 4
  /\ ToDo["converting"] = 3 /\ ToDo["placing"] = 2 /\ ToDo["copying"] = 1
BY DEF ToDo

LEMMA SomethingToDo ==
  ASSUME TypeOK, pc \notin {"end", "reporting"}
  PROVE  ToDo[pc] \in 1..14
<1>1. pc \in {"source", "filtering", "exclude", "excluding", "reduce", "reducing",
             "place_pbf", "copying_pbf", "export", "exporting", "folding", "fields",
             "converting", "placing", "copying"}
  BY DEF TypeOK
<1> QED
  BY <1>1, PlacesToGo

\* There are two formats to export to.
LEMMA FewExports ==
  ASSUME job \in Requests
  PROVE  Len(job.exports) \in 0..2
<1>1. PICK n \in 0..2 : job.exports \in [1..n -> Exports]
  BY DEF Requests, Lists
<1>2. Len(job.exports) = n
  BY <1>1
<1> QED
  BY <1>2

LEMMA LessIsLeft ==
  ASSUME PipelineInv, Next, ~ ReplaceSource
  PROVE  StepsLeft' < StepsLeft
<1> DEFINE L == Len(job.sources)
           E == Len(job.exports)
<1>1. TypeOK /\ Held /\ job \in Requests /\ job' = job
  BY NothingIsTakenBack DEF PipelineInv, TypeOK
<1>2. /\ L \in Nat /\ E \in 0..2 /\ src \in 1..L + 1 /\ fmt \in 1..E + 1
  BY <1>1, RequestFacts, FewExports DEF TypeOK
<1>i. /\ L \in Int /\ E \in Int /\ src \in Int /\ fmt \in Int
      /\ src + 1 \in Int /\ fmt + 1 \in Int /\ 1 \in Int
  BY <1>2
<1> HIDE DEF L, E
<1>3. /\ pc \in Exporting \union Working \union {"filtering"} => src \in 1..L
      /\ pc \in InFormat => fmt \in 1..E
      /\ pc \in Working \union {"source", "filtering"} => fmt = 1
  BY <1>1, <1>2 DEF Held, Places, L, E
<1>4. /\ pc = "end" => StepsLeft = 0
      /\ pc = "reporting" => StepsLeft = 1
      /\ pc \notin {"end", "reporting"} =>
           StepsLeft = 25 * (L + 1 - src) + 6 * (E + 1 - fmt) + ToDo[pc]
      /\ pc' = "end" => StepsLeft' = 0
      /\ pc' = "reporting" => StepsLeft' = 1
      /\ pc' \notin {"end", "reporting"} =>
           StepsLeft' = 25 * (L + 1 - src') + 6 * (E + 1 - fmt') + ToDo[pc']
  BY <1>1, StepsLeftIs DEF L, E
<1>5. CASE BeginSource \/ Filter \/ BeginPass \/ Exclude \/ Reduce \/ PlacePbf
  <2>1. src' = src /\ fmt' = fmt
    BY <1>5 DEF BeginSource, Filter, BeginPass, Exclude, Reduce, PlacePbf
  <2>2. \/ pc = "source" /\ pc' = "filtering"
        \/ pc = "filtering" /\ pc' \in {"exclude", "reduce", "place_pbf", "export"}
        \/ pc = "exclude" /\ pc' = "excluding"
        \/ pc = "excluding" /\ pc' \in {"reduce", "place_pbf", "export"}
        \/ pc = "reduce" /\ pc' = "reducing"
        \/ pc = "reducing" /\ pc' = "place_pbf"
        \/ pc \in {"place_pbf", "copying_pbf"} /\ pc' = "export"
    BY <1>5 DEF BeginSource, Filter, BeginPass, Exclude, Reduce, PlacePbf, Goto,
                AfterFilter, AfterExclude
  <2> QED
    BY <1>2, <1>i, <1>4, <2>1, <2>2, PlacesToGo
<1>6. CASE BeginExport \/ Export \/ Fold \/ GetFields \/ Convert \/ BeginCopy
  <2>1. src' = src /\ fmt' = fmt
    BY <1>6 DEF BeginExport, Export, Fold, GetFields, Convert, BeginCopy
  <2>2. \/ pc = "export" /\ pc' \in {"exporting", "converting"}
        \/ pc = "exporting" /\ pc' \in {"folding", "fields"}
        \/ pc \in {"folding", "fields"} /\ pc' = "converting"
        \/ pc = "converting" /\ pc' = "placing"
        \/ pc = "place_pbf" /\ pc' = "copying_pbf"
        \/ pc = "placing" /\ pc' = "copying"
    BY <1>6 DEF BeginExport, Export, Fold, GetFields, Convert, BeginCopy, Goto
  <2> QED
    BY <1>2, <1>i, <1>4, <2>1, <2>2, PlacesToGo
<1>7. CASE PlaceExport
  <2>1. src' = src /\ fmt' = fmt + 1 /\ pc \in {"placing", "copying"}
        /\ pc' = "export"
    BY <1>7 DEF PlaceExport, Goto
  <2> QED
    BY <1>2, <1>i, <1>4, <2>1, PlacesToGo
<1>8. CASE EndSource \/ ExportEmpty
  <2>1. /\ src' = src + 1 /\ fmt' = 1 /\ pc' = "source"
        /\ pc \in {"export", "exporting"}
    BY <1>8 DEF EndSource, ExportEmpty, NextSource, Goto
  <2>2. src \in 1..L
    BY <1>3, <2>1 DEF Exporting
  <2> QED
    BY <1>2, <1>i, <1>4, <2>1, <2>2, PlacesToGo
<1>9. CASE BeginReports
  <2>1. pc = "source" /\ pc' = "reporting"
    BY <1>9 DEF BeginReports, Goto
  <2> QED
    BY <1>2, <1>i, <1>4, <2>1, PlacesToGo
<1>10. CASE WriteReports
  <2>1. pc = "reporting" /\ pc' = "end"
    BY <1>10 DEF WriteReports, Goto
  <2> QED
    BY <1>2, <1>i, <1>4, <2>1, PlacesToGo
<1>11. CASE Fail
  <2>1. pc \notin {"end", "reporting"} /\ pc' = "end"
    BY <1>11 DEF Fail, Goto
  <2>2. StepsLeft > 0
    <3>1. ToDo[pc] \in 1..14
      BY <1>1, <2>1, SomethingToDo
    <3> QED
      BY <1>2, <1>i, <1>4, <2>1, <3>1
  <2> QED
    BY <1>4, <2>1, <2>2
<1> QED
  BY <1>5, <1>6, <1>7, <1>8, <1>9, <1>10, <1>11 DEF Next

\* Every step of a job leaves less to do, and what is left is a number from the
\* start: the loops of _execute_job end, for any request.
THEOREM JobsRunOut == Spec => JobRunsOut /\ [](StepsLeft \in Nat)
<1>1. PipelineInv /\ [Next]_vars => [StepsLeft' < StepsLeft \/ ReplaceSource]_vars
  BY LessIsLeft
<1>2. PipelineInv => StepsLeft \in Nat
  <2> SUFFICES ASSUME PipelineInv PROVE StepsLeft \in Nat
    OBVIOUS
  <2>1. TypeOK /\ job \in Requests
    BY DEF PipelineInv, TypeOK
  <2>2. /\ Len(job.sources) \in Nat /\ Len(job.exports) \in Nat
        /\ src \in 1..Len(job.sources) + 1 /\ fmt \in 1..Len(job.exports) + 1
    BY <2>1, RequestFacts DEF TypeOK
  <2>3. pc \notin {"end", "reporting"} => ToDo[pc] \in 1..14
    BY <2>1, SomethingToDo
  <2>4. /\ pc = "end" => StepsLeft = 0
        /\ pc = "reporting" => StepsLeft = 1
        /\ pc \notin {"end", "reporting"} =>
             StepsLeft = 25 * (Len(job.sources) + 1 - src)
                           + 6 * (Len(job.exports) + 1 - fmt) + ToDo[pc]
    BY DEF StepsLeft
  <2> DEFINE steps == 25 * (Len(job.sources) + 1 - src) + 6 * (Len(job.exports) + 1 - fmt)
  <2>5. steps \in Nat
    <3>1. Len(job.sources) + 1 - src \in Nat /\ Len(job.exports) + 1 - fmt \in Nat
      BY <2>2
    <3>2. \A m, n \in Nat : 25 * m + 6 * n \in Nat
      OBVIOUS
    <3> QED
      BY <3>1, <3>2
  <2>6. pc \notin {"end", "reporting"} => StepsLeft = steps + ToDo[pc]
    BY <2>4
  <2> HIDE DEF steps
  <2> QED
    BY SMTT(30), <2>3, <2>4, <2>5, <2>6
<1> QED
  BY <1>1, <1>2, PipelineInvHolds, PTL DEF Spec, JobRunsOut

===============================================================================
