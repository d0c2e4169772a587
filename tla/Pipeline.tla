------------------------------ MODULE Pipeline ------------------------------
(***************************************************************************)
(* The output pipeline (src/dsl): stages that filter, sort, group, reduce  *)
(* and reshape what a command has produced, one after another. A result    *)
(* is rows in one partition, or the partitions of a grouping, and what its *)
(* producer said of how to show it. Each stage has to keep the two in      *)
(* step: what is said of a field, of a row or of the whole no longer holds *)
(* once the field is another one, the rows are others, or the shape is.    *)
(*                                                                         *)
(* A field is a name and holds a scalar or a list of scalars; the nesting  *)
(* of JSON, partial names and the text of a search are left out. So is JQ. *)
(***************************************************************************)
EXTENDS Integers, SequencesExt

CONSTANTS
  Products,  \* what commands produce: [rows, roles, view, formatted, title]
  Stages,    \* the stages that are typed, compiled
  Null,      \* the JSON value
  MaxStages  \* bound: stages behind one command

\* What a field holds, and the row of cells of a producer (see Cell).
Scalars == Int \cup {Null}
CellType == [is : [many : BOOLEAN, items : Seq(Scalars)], from : STRING]

ProducedRow(cells) ==
  /\ DOMAIN cells \subseteq STRING /\ cells \in [DOMAIN cells -> CellType]
  /\ \A k \in DOMAIN cells : cells[k].from = k

Plans == [key : STRING, header : STRING, exists : BOOLEAN]

Verbs == {"F", "quick", "?", "S", "L", "G", "A", "C", "Z", "U", "P", "VALUE", "Y"}

ASSUME StagesAssumption ==
  /\ MaxStages \in Nat
  /\ \A p \in Products :
       /\ p.rows \in Seq(ToSet(p.rows)) /\ \A cells \in ToSet(p.rows) : ProducedRow(cells)
       /\ p.roles \in Seq(STRING) /\ (p.roles = <<>> \/ Len(p.roles) = Len(p.rows))
  /\ \A stage \in Stages :
       /\ stage.verb \in Verbs
       /\ stage.verb = "L" => stage.count \in Int /\ stage.offset \in Int
       /\ stage.verb = "G" =>
            /\ stage.plans \in Seq(Plans)
            /\ \A i, j \in DOMAIN stage.plans : stage.plans[i].header = stage.plans[j].header => i = j
       /\ stage.verb = "A" => stage.alias \in STRING /\ stage.function \in {"count", "sum", "max"}
       /\ stage.verb = "VALUE" => stage.keys \in Seq(STRING)

VARIABLES
  product,  \* what the command has produced
  output,   \* what the stages so far have made of it
  passed,   \* how many there were
  refused,  \* a stage was an error, the output is not shown
  last      \* history variable: the last stage that was applied, and to what

outputVars == <<product, output, passed, refused, last>>

-----------------------------------------------------------------------------
(* Values, rows and sets of rows. *)

Scalar(x) == [many |-> FALSE, items |-> <<x>>]

\* is_truthy
Truthy(value) == IF value.many THEN value.items # <<>> ELSE value.items[1] \notin {Null, 0}

\* is_empty_value
Empty(value) == IF value.many THEN value.items = <<>> ELSE value.items[1] = Null

\* A cell knows the field of the producer that it was taken from. Other cells
\* were made by a stage, or are the answer of `G ?field`.
Made == "made"
Asked == "asked"
Cell(value, from) == [is |-> value, from |-> from]
NoCells == [k \in {} |-> Null]
Only(key, cell) == [k \in {key} |-> cell]

\* The cells of `front`, and those of `back` under other names.
Over(front, back) ==
  [k \in DOMAIN front \cup DOMAIN back |-> IF k \in DOMAIN front THEN front[k] ELSE back[k]]

\* The scalars that a field holds, none if there is no such field.
Elements(cells, key) == IF key \in DOMAIN cells THEN cells[key].is.items ELSE <<>>

\* What a sequence holds at some positions, in its order.
Picked(seq, at) ==
  LET picked[n \in 0 .. Len(seq)] ==
        IF n = 0 THEN <<>>
        ELSE IF n \in at THEN Append(picked[n - 1], seq[n]) ELSE picked[n - 1]
  IN  picked[Len(seq)]

\* A row knows the row of the producer that it came from, if it is one.
Row(of, cells) == [of |-> of, cells |-> cells]

Flat(rows) ==
  [grouped |-> FALSE, parts |-> <<[groups |-> NoCells, aggregates |-> NoCells, rows |-> rows]>>]

\* group_header_row
Header(part) == Over(part.aggregates, part.groups)

MapRows(set, Change(_)) ==
  [set EXCEPT !.parts = [i \in DOMAIN set.parts |->
     [set.parts[i] EXCEPT !.rows = Change(set.parts[i].rows)]]]

EachRow(set, Change(_)) ==
  MapRows(set, LAMBDA rows : FlattenSeq([i \in DOMAIN rows |-> Change(rows[i])]))

\* S and L take groups, where there are any, as their units.
Arranged(set, Change(_)) ==
  IF set.grouped THEN [set EXCEPT !.parts = Change(set.parts)] ELSE MapRows(set, Change)

AllRows(set) == FlattenSeq([i \in DOMAIN set.parts |-> set.parts[i].rows])

\* The fields of output_items_to_rows.
ShownFields(set) ==
  (UNION {DOMAIN row.cells : row \in ToSet(AllRows(set))})
    \cup (UNION {DOMAIN Header(set.parts[i]) : i \in DOMAIN set.parts})

NothingShown(set) == IF set.grouped THEN set.parts = <<>> ELSE AllRows(set) = <<>>

-----------------------------------------------------------------------------
(* Filters: F, quick search, ? *)

\* A field passes if it is there and holds (`exists`) or is the value, or if it
\* does not and the test is negated.
Matches(cells, stage) ==
  /\ stage.key \in DOMAIN cells
  /\ LET value == cells[stage.key].is
     IN  IF stage.exists THEN Truthy(value) ELSE stage.value \in ToSet(value.items)

Passes(cells, stage) == Matches(cells, stage) # stage.negated

\* A header decides for its whole group.
Filtered(set, stage) ==
  LET Decides(part) == set.grouped /\ stage.key \in DOMAIN Header(part)
      Rest(part)    ==
        Picked(part.rows, {i \in DOMAIN part.rows : Passes(part.rows[i].cells, stage)})
      Stays(part)   == IF Decides(part) THEN Passes(Header(part), stage)
                       ELSE ~set.grouped \/ Rest(part) # <<>>
      kept == Picked(set.parts, {i \in DOMAIN set.parts : Stays(set.parts[i])})
  IN  [set EXCEPT !.parts = [i \in DOMAIN kept |->
         IF Decides(kept[i]) THEN kept[i] ELSE [kept[i] EXCEPT !.rows = Rest(kept[i])]]]

\* A token is found as the name of a field or among the values.
Found(cells, stage) ==
  \/ stage.key \in DOMAIN cells
  \/ \E k \in DOMAIN cells : stage.value \in ToSet(cells[k].is.items)

QuickPasses(cells, stage) ==
  IF stage.exists THEN Passes(cells, stage) ELSE Found(cells, stage) # stage.negated

\* QuickPlan::narrows
NarrowsPart(part, stage) == Len(part.rows) = 1 /\ ~stage.exists

Narrows(set, stage) ==
  stage.verb = "quick" /\ \E i \in DOMAIN set.parts : NarrowsPart(set.parts[i], stage)

\* What is found in a lone row: a field of that name, else the values.
Narrowed(row, stage) ==
  LET named == {stage.key} \cap DOMAIN row.cells
      Selected(k, x) == k \in named \/ ((named = {} \/ stage.negated) /\ x = stage.value)
      Items(k) == row.cells[k].is.items
      Left(k) ==
        Picked(Items(k), {i \in DOMAIN Items(k) : Selected(k, Items(k)[i]) # stage.negated})
      fields == {k \in DOMAIN row.cells : IF Items(k) = <<>>
                                          THEN (k \in named) # stage.negated ELSE Left(k) # <<>>}
  IN  IF fields = {} THEN <<>>
      ELSE <<Row(row.of, [k \in fields |-> [row.cells[k] EXCEPT !.is.items = Left(k)]])>>

Quick(set, stage) ==
  LET Rest(part) ==
        IF NarrowsPart(part, stage) THEN Narrowed(part.rows[1], stage)
        ELSE Picked(part.rows, {i \in DOMAIN part.rows : QuickPasses(part.rows[i].cells, stage)})
  IN  [set EXCEPT !.parts = [i \in DOMAIN set.parts |->
         [set.parts[i] EXCEPT !.rows = Rest(set.parts[i])]]]

Kept(cells, fields) == IF fields = {} THEN <<>> ELSE <<[k \in fields |-> cells[k]]>>

\* clean_row
CleanRow(row) ==
  LET left == Kept(row.cells, {k \in DOMAIN row.cells : ~Empty(row.cells[k].is)})
  IN  [i \in DOMAIN left |-> Row(row.of, left[i])]

IsClean(set) ==
  \A row \in ToSet(AllRows(set)) :
    DOMAIN row.cells # {} /\ \A k \in DOMAIN row.cells : ~Empty(row.cells[k].is)

-----------------------------------------------------------------------------
(* Order: S, L *)

\* What a unit is sorted by, as a number; null is after numbers, and what is
\* missing is last in either direction.
AfterNumbers == 1000

Weight(unit, stage) ==
  LET cells == IF "cells" \in DOMAIN unit THEN unit.cells ELSE Over(unit.groups, unit.aggregates)
      all   == Elements(cells, stage.key)
      value == IF all[1] = Null THEN AfterNumbers ELSE all[1]
  IN  IF all = <<>> THEN AfterNumbers + 1 ELSE IF stage.descending THEN -value ELSE value

Units(set) == IF set.grouped THEN set.parts ELSE AllRows(set)

Sorted(units, stage) ==
  LET weight == [i \in DOMAIN units |-> Weight(units[i], stage)]
      Before(i, j) == weight[i] < weight[j] \/ (weight[i] = weight[j] /\ i < j)
      At(n) == CHOOSE j \in DOMAIN units : Cardinality({i \in DOMAIN units : Before(i, j)}) = n - 1
  IN  [n \in DOMAIN units |-> units[At(n)]]

\* apply_with_spec: an offset below zero and a count below zero are from the end.
Limited(units, stage) ==
  LET length == Len(units)
      start  == IF stage.offset >= 0 THEN stage.offset
                ELSE IF length + stage.offset < 0 THEN 0 ELSE length + stage.offset
      stop   == start + stage.count
      tail   == length + stage.count
  IN  IF stage.count >= 0 THEN SubSeq(units, start + 1, IF stop > length THEN length ELSE stop)
      ELSE SubSeq(units, (IF tail < start THEN start ELSE tail) + 1, length)

-----------------------------------------------------------------------------
(* Groups: G, A, C, Z *)

\* Seeded bug: a list that repeats an element joins its group twice.
Repeated(seq) == seq

Distinct(seq) ==
  Picked(seq, {i \in DOMAIN seq : \A j \in 1 .. i - 1 : seq[j] # seq[i]})

\* resolve_group_values: `key` of a plan is a field, `header` its name as a header.
GroupValues(cells, plan) ==
  LET all == Elements(cells, plan.key)
      yes == \E x \in ToSet(all) : x \notin {Null, 0}
  IN  IF plan.exists THEN <<Cell(Scalar(IF yes THEN 1 ELSE 0), Asked)>>
      ELSE LET each == Distinct(IF all = <<>> THEN <<Null>> ELSE all)
               from == IF plan.key \in DOMAIN cells THEN cells[plan.key].from ELSE plan.key
           IN  [i \in DOMAIN each |-> Cell(Scalar(each[i]), from)]

Combined(combinations, header, values) ==
  FlattenSeq([i \in DOMAIN combinations |->
    [j \in DOMAIN values |-> Over(combinations[i], Only(header, values[j]))]])

\* resolve_group_headers: a header for each combination of the values.
GroupHeaders(cells, plans) ==
  LET headers[n \in 0 .. Len(plans)] ==
        IF n = 0 THEN <<NoCells>>
        ELSE Combined(headers[n - 1], plans[n].header, GroupValues(cells, plans[n]))
  IN  headers[Len(plans)]

\* A row joins a group for each of its headers, which extend those of the group
\* that it is in.
Joining(part, row, headers) ==
  [i \in DOMAIN headers |->
     [groups |-> Over(headers[i], part.groups), aggregates |-> part.aggregates, row |-> row]]

JoiningAll(part, plans) ==
  FlattenSeq([i \in DOMAIN part.rows |->
    Joining(part, part.rows[i], GroupHeaders(part.rows[i].cells, plans))])

\* What headers say, whatever fields they were taken from.
Says(groups) == [k \in DOMAIN groups |-> groups[k].is]

\* GroupBuckets::push: the group is the entry that was met first, with the rows
\* of all.
Bucket(joined) ==
  [groups |-> joined[1].groups, aggregates |-> joined[1].aggregates,
   rows |-> [i \in DOMAIN joined |-> joined[i].row]]

\* In the order in which they are met.
Bucketed(entries) ==
  LET said == [i \in DOMAIN entries |-> Says(entries[i].groups)]
      keys == Distinct(said)
  IN  [n \in DOMAIN keys |-> Bucket(Picked(entries, {i \in DOMAIN entries : said[i] = keys[n]}))]

\* group_partitions_with_plan
Grouped(set, plans) ==
  [grouped |-> TRUE,
   parts |-> Bucketed(FlattenSeq([i \in DOMAIN set.parts |-> JoiningAll(set.parts[i], plans)]))]

\* aggregate_rows; without a column there is one value for each row.
Aggregate(rows, stage) ==
  LET values == IF stage.column = "" THEN [i \in DOMAIN rows |-> 1]
                ELSE FlattenSeq([i \in DOMAIN rows |-> Elements(rows[i].cells, stage.column)])
      numbers == Picked(values, {i \in DOMAIN values : values[i] # Null})
      sum[n \in 0 .. Len(numbers)] == IF n = 0 THEN 0 ELSE sum[n - 1] + numbers[n]
      most == CHOOSE x \in ToSet(numbers) : \A y \in ToSet(numbers) : y <= x
  IN  CASE stage.function = "count" -> Len(numbers)
        [] stage.function = "sum"   -> sum[Len(numbers)]
        [] stage.function = "max"   -> IF numbers = <<>> THEN Null ELSE most

Aggregated(set, stage) ==
  LET Value(rows) == Only(stage.alias, Cell(Scalar(Aggregate(rows, stage)), Made))
  IN  IF set.parts = <<>> THEN Flat(<<Row(0, Value(<<>>))>>)
      ELSE IF set.grouped
           THEN [set EXCEPT !.parts = [i \in DOMAIN set.parts |->
                   [set.parts[i] EXCEPT !.aggregates = Over(Value(set.parts[i].rows), @)]]]
           ELSE MapRows(set, LAMBDA rows : <<Row(0, Value(rows))>>)

Counted(set) ==
  LET Count(rows) == Only("count", Cell(Scalar(Len(rows)), Made))
  IN  IF set.parts = <<>> THEN Flat(<<Row(0, Count(<<>>))>>)
      ELSE Flat([i \in DOMAIN set.parts |-> Row(0, Over(Count(set.parts[i].rows), set.parts[i].groups))])

Collapsed(set) == Flat([i \in DOMAIN set.parts |-> Row(0, Header(set.parts[i]))])

-----------------------------------------------------------------------------
(* Shape: U, P, VALUE *)

UnrollRow(row, stage) ==
  IF stage.key \in DOMAIN row.cells /\ row.cells[stage.key].is.many
  THEN LET all == row.cells[stage.key].is.items
           items == Picked(all, {i \in DOMAIN all : all[i] # Null})
       IN  [i \in DOMAIN items |->
              Row(row.of, [row.cells EXCEPT ![stage.key].is = Scalar(items[i])])]
  ELSE <<row>>

\* A row of which nothing is left goes, unless the stage only drops fields.
ProjectRow(row, stage) ==
  LET fields == (IF stage.keep = {} THEN DOMAIN row.cells ELSE stage.keep \cap DOMAIN row.cells)
                  \ stage.drop
      left == Kept(row.cells, fields)
  IN  IF left = <<>> /\ stage.keep = {} THEN <<Row(row.of, NoCells)>>
      ELSE [i \in DOMAIN left |-> Row(row.of, left[i])]

Values(rows, stage) ==
  LET OfRow(key, row) ==
        LET all == Elements(row.cells, key)
        IN  [i \in DOMAIN all |-> Row(0, Only("value", Cell(Scalar(all[i]), Made)))]
      OfKey(key) == FlattenSeq([i \in DOMAIN rows |-> OfRow(key, rows[i])])
  IN  FlattenSeq([n \in DOMAIN stage.keys |-> OfKey(stage.keys[n])])

-----------------------------------------------------------------------------
(* A stage is applied. *)

\* apply_stage
Apply(set, stage) ==
  CASE stage.verb = "F"     -> Filtered(set, stage)
    [] stage.verb = "quick" -> Quick(set, stage)
    [] stage.verb = "?"     -> EachRow(set, CleanRow)
    [] stage.verb = "S"     -> Arranged(set, LAMBDA units : Sorted(units, stage))
    [] stage.verb = "L"     -> Arranged(set, LAMBDA units : Limited(units, stage))
    [] stage.verb = "G"     -> Grouped(set, stage.plans)
    [] stage.verb = "A"     -> Aggregated(set, stage)
    [] stage.verb = "C"     -> Counted(set)
    [] stage.verb = "Z"     -> Collapsed(set)
    [] stage.verb = "U"     -> EachRow(set, LAMBDA row : UnrollRow(row, stage))
    [] stage.verb = "P"     -> EachRow(set, LAMBDA row : ProjectRow(row, stage))
    [] stage.verb = "VALUE" -> MapRows(set, LAMBDA rows : Values(rows, stage))
    [] stage.verb = "Y"     -> set

\* StageBehavior: what stays is neither reshaped nor reduced.
Keeps(set, stage) ==
  stage.verb \in {"F", "S", "L", "Y", "quick"} /\ ~Narrows(set, stage)

\* The fields that a stage fills with something else than it found in them.
Reduced(stage) ==
  CASE stage.verb = "A"     -> {stage.alias}
    [] stage.verb = "C"     -> {"count"}
    [] stage.verb = "VALUE" -> {"value"}
    [] OTHER                -> {}

\* renamed_headers
Renamed(stage) ==
  IF stage.verb = "G" THEN {p.header : p \in {q \in ToSet(stage.plans) : q.header # q.key}} ELSE {}

\* CompiledStage::synthesized_fields
Created(stage) == Reduced(stage) \cup Renamed(stage)

\* The rows of a document take their roles along; no other rows have any.
WithRoles(rows, roles) ==
  [i \in DOMAIN rows |-> [of |-> rows[i].of, cells |-> rows[i].cells, role |-> roles[i]]]
Roles(rows) == [i \in DOMAIN rows |-> rows[i].role]
WithoutRole(rows) == [i \in DOMAIN rows |-> Row(rows[i].of, rows[i].cells)]

\* run_compiled
Advance(out, stage) ==
  LET keeps    == Keeps(out.set, stage)
      document == out.document /\ keeps
      moved    == IF document THEN Apply(Flat(WithRoles(AllRows(out.set), out.roles)), stage)
                  ELSE Apply(out.set, stage)
      set      == IF document THEN MapRows(moved, WithoutRole) ELSE moved
      untitled == out.title \in Created(stage) \/ (~keeps /\ out.title \notin ShownFields(set))
  IN  [set       |-> set,
       document  |-> document,
       roles     |-> IF document THEN Roles(AllRows(moved)) ELSE <<>>,
       view      |-> out.view /\ keeps,
       formatted |-> {rule \in out.formatted : rule \cap Created(stage) = {}},
       title     |-> IF untitled THEN "" ELSE out.title,
       sink      |-> out.sink \/ stage.verb = "Y"]

\* resolve_stage_keys: what has no such field is told so.
Named(stage) ==
  CASE stage.verb \in {"F", "S"} -> {stage.key}
    [] stage.verb = "G" -> {p.key : p \in ToSet(stage.plans)}
    [] stage.verb = "P" -> stage.keep \cup stage.drop
    [] OTHER -> {}

Unsortable(units, stage) ==
  units # <<>> /\ \A i \in DOMAIN units : Weight(units[i], stage) = AfterNumbers + 1

IsError(out, stage) ==
  \/ ~NothingShown(out.set) /\ ~(Named(stage) \subseteq ShownFields(out.set))
  \/ stage.verb = "S" /\ Unsortable(Units(out.set), stage)
  \/ stage.verb = "Z" /\ ~out.set.grouped
  \/ stage.verb # "Y" /\ out.sink

-----------------------------------------------------------------------------
(* A line. *)

Unstaged(p) ==
  [set |-> Flat([i \in DOMAIN p.rows |-> Row(i, p.rows[i])]),
   document |-> p.roles # <<>>, roles |-> p.roles, view |-> p.view,
   formatted |-> p.formatted, title |-> p.title, sink |-> FALSE]

NoStage == [verb |-> "", set |-> Flat(<<>>), plans |-> <<>>]

Produces(p) ==
  /\ product' = p /\ output' = Unstaged(p)
  /\ passed' = 0 /\ refused' = FALSE /\ last' = NoStage

OutputInit ==
  \E p \in Products :
    /\ product = p /\ output = Unstaged(p)
    /\ passed = 0 /\ refused = FALSE /\ last = NoStage

\* The output is shown, or the error is; then another command produces its own.
Produce == \E p \in Products : Produces(p)

\* apply_output_pipeline takes the next stage. One that would clean what is
\* clean does nothing.
RunStage(stage) ==
  /\ ~refused /\ passed < MaxStages
  /\ ~IsError(output, stage)
  /\ passed' = passed + 1
  /\ IF stage.verb = "?" /\ IsClean(output.set) THEN UNCHANGED <<output, last>>
     ELSE /\ output' = Advance(output, stage)
          /\ last' = [verb |-> stage.verb, set |-> output.set,
                      plans |-> IF stage.verb = "G" THEN stage.plans ELSE <<>>]
  /\ UNCHANGED <<product, refused>>

RefuseStage(stage) ==
  /\ ~refused /\ passed < MaxStages
  /\ IsError(output, stage)
  /\ refused' = TRUE
  /\ UNCHANGED <<product, output, passed, last>>

OutputNext ==
  \/ Produce
  \/ \E stage \in Stages : RunStage(stage) \/ RefuseStage(stage)

OutputSpec == OutputInit /\ [][OutputNext]_outputVars

-----------------------------------------------------------------------------
(* Properties. *)

FormattedFields == (UNION output.formatted) \cup ({output.title} \ {""})

FromProducer(cells) ==
  \A k \in DOMAIN cells \cap FormattedFields : cells[k].from \in {k, Asked}

\* What the producer said of a result is said of nothing else: a formatting rule
\* and the title are about a field of the producer and never about one of the
\* same name that a stage made (`G ?field` apart, see README), a role is about
\* the row of the document that it was given to, and columns, notes and the way
\* to render are about whole rows of the producer.
PresentationFits ==
  LET rows == AllRows(output.set)
  IN  /\ \A i \in DOMAIN rows : FromProducer(rows[i].cells)
      /\ \A i \in DOMAIN output.set.parts : FromProducer(Header(output.set.parts[i]))
      /\ output.document => output.roles = [i \in DOMAIN rows |-> product.roles[rows[i].of]]
      /\ output.view => \A i \in DOMAIN rows : rows[i].of > 0 /\ rows[i].cells = product.rows[rows[i].of]

\* The value of a header is one that the row has: an element, null for a row
\* that has none, or whether it has a true one.
Admits(header, cells, plan) ==
  LET all == ToSet(Elements(cells, plan.key))
      x   == header[plan.header].is.items[1]
  IN  IF plan.exists THEN (x = 1) = (all \ {Null, 0} # {})
      ELSE x \in all \/ (all = {} /\ x = Null)

\* G makes of the rows before it, and of their groups if there were any, groups
\* that are told apart by their headers; each holds all the rows that its header
\* is true of, once and in their order, and no row is in none.
GroupingIsExact ==
  LET before == last.set.parts
      after  == output.set.parts
      rows   == AllRows(last.set)
      named  == {p.header : p \in ToSet(last.plans)}
      Others(groups) == Says([k \in DOMAIN groups \ named |-> groups[k]])
      Members(part) ==
        FlattenSeq([i \in DOMAIN before |->
          Picked(before[i].rows, {j \in DOMAIN before[i].rows :
            /\ Others(part.groups) = Others(before[i].groups)
            /\ \A n \in DOMAIN last.plans : Admits(part.groups, before[i].rows[j].cells, last.plans[n])})])
  IN  last.verb = "G" =>
        /\ \A i, j \in DOMAIN after : Says(after[i].groups) = Says(after[j].groups) => i = j
        /\ \A i \in DOMAIN after : after[i].rows = Members(after[i])
        /\ \A i \in DOMAIN rows : \E j \in DOMAIN after : rows[i] \in ToSet(after[j].rows)

=============================================================================
