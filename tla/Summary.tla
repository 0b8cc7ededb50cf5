------------------------------ MODULE Summary ------------------------------
(***************************************************************************)
(* What a session's records say: session/summary.py, which a Stop hook     *)
(* shows and `shim report` prints, and the records hooks write for it.     *)
(*                                                                         *)
(* A record holds what was found (a count per type, and those of the       *)
(* user's own names), what was done about it, and a note when the event    *)
(* was not inspected, the tool and the file it was found in, and how many  *)
(* bare numbers were left as they were.  A line of the summary is the      *)
(* label it is read under, what it counts, the count, the records it       *)
(* counts and where they were.  Layout and timings are left out.  "none"   *)
(* is a tool, a name or a note that is missing; the note "not inspected"   *)
(* is "uninspected", and the one older versions wrote "not-inspected".     *)
(***************************************************************************)
EXTENDS Naturals, Sequences, FiniteSets, FiniteSetsExt, Filters, Findings

CONSTANTS
    Types,          \* the types of findings
    Custom,         \* the type of the user's own names, one of Types
    MaxSources,     \* how many places a line names (3)
    MaxFound,       \* bound: findings of a type, or bare numbers, in a record
    MaxRecords      \* bound: records in a session

\* the types are names in capitals; a line that counts none of them is of these
OtherWhats == {"withheld", "passed", "bare", "events", "hidden", "another"}

ASSUME SummaryAssumption ==
    /\ Custom \in Types /\ Types \cap OtherWhats = {}
    /\ MaxSources \in Nat \ {0} /\ MaxFound \in Nat /\ MaxRecords \in Nat

VARIABLE records    \* the session's records, as the spool holds them

-----------------------------------------------------------------------------
(* The records the hooks write (events/pipeline.py, hook.py), and those of *)
(* another version, which a ledger may still hold.                         *)

Nothing == [t \in Types |-> 0]
Record(direction, event, action, found, note) ==
    [direction |-> direction, event |-> event, action |-> action,
     entities |-> found, custom |-> found[Custom], note |-> note, bare |-> 0,
     client |-> "claude", markers |-> {},
     tool |-> IF direction = "tool" THEN "Read" ELSE "none", target |-> << >>]

\* a target is the folder and the name of a file, or one piece, or nothing
Targets == {<< "a", "env" >>, << "b", "env" >>, << "a", "key" >>}
In(r, target, bare) == [r EXCEPT !.target = target, !.bare = bare]

Found == [Types -> 0..MaxFound]
FoundSome == Found \ {Nothing}

ToolRecords ==
    { Record("tool", e, a, f, "none") : e \in {"PostToolUse", "PostToolUseFailure"},
                                    a \in {"mask", "deny", "report"}, f \in FoundSome }
    \cup { Record("tool", "PostToolUse", "allow", f, "none") : f \in Found }
    \cup { Record("tool", "PostToolUse", a, f, "uninspected") :
             a \in {"deny", "report"}, f \in Found }
    \cup { Record("tool", "PreToolUse", "deny", Nothing, "refused") }
    \cup { [Record("tool", "PostToolUse", a, f, "none") EXCEPT !.markers = {"hidden"}] :
             a \in {"allow", "report"}, f \in Found }
    \cup { In(Record("tool", e, "report", f, "none"), target, 0) :
             e \in {"PostToolUse", "PostToolUseFailure"}, f \in FoundSome, target \in Targets }
    \cup { In(Record("tool", "PostToolUse", "allow", Nothing, "none"), target, n) :
             target \in Targets, n \in 1..MaxFound }

PromptRecords ==
    { Record("prompt", "UserPromptSubmit", a, f, "none") :
        a \in {"allow", "mask", "report", "deny"}, f \in Found }

ReplyRecords == { Record("model-output", "Stop", "report", f, "none") : f \in Found }

OtherVersion(found, note, client, markers) ==
    [Record("tool", "PostToolUse", "other", found, note) EXCEPT !.client = client, !.markers = markers]
OtherVersions ==
    { OtherVersion(f, n, c, m) :
        f \in FoundSome, n \in {"none", "partial", "not-inspected"},
        c \in {"claude", "another"}, m \in SUBSET {"hidden", "another"} }

Written == ToolRecords \cup PromptRecords \cup ReplyRecords \cup OtherVersions

-----------------------------------------------------------------------------
(* The groups of records. *)

KnownActions == {"allow", "mask", "unmasked", "deny", "report"}

ActionOf(r) ==
    IF r.event = "PostToolUseFailure" /\ r.action = "report" THEN "unmasked" ELSE r.action

HoldsFindings(r) == r.entities # Nothing

Of(recs, Test(_)) == { i \in DOMAIN recs : Test(recs[i]) }

ActedOn(recs) == Of(recs, LAMBDA r : r.action # "allow" /\ r.direction # "model-output")

(* Mutant: an action of another version is passed over. *)
MutantUninspected(recs) == Of(recs, LAMBDA r : r.note = "uninspected")

Uninspected(recs) ==
    Of(recs, LAMBDA r : \/ r.note \in {"uninspected", "not-inspected"}
                        \/ HoldsFindings(r) /\ ActionOf(r) \notin KnownActions)

(* An older version says "not-inspected" of an event it read in part.      *)
Incomplete(recs) == Of(recs, LAMBDA r : r.note \in {"partial", "not-inspected"})
Partial(recs) == Of(recs, LAMBDA r : r.note = "partial")
Flagged(recs, markers) == Of(recs, LAMBDA r : r.markers \cap markers # {})
Replies(recs) == Of(recs, LAMBDA r : r.direction = "model-output" /\ HoldsFindings(r))
Prompted(recs) == Of(recs, LAMBDA r : r.direction # "model-output")

Bare(recs) == Of(recs, LAMBDA r : r.direction # "model-output" /\ r.bare > 0)

(* _sources and _where: the places most of the records are of, and how     *)
(* many others there are.                                                  *)
Basename(target) == IF target = << >> THEN "none" ELSE target[Len(target)]

(* Mutant: a failed call is of the place of one that did not.              *)
MutantSourceOf(r) == << IF r.tool = "none" THEN r.event ELSE r.tool, Basename(r.target), FALSE >>

SourceOf(r) ==
    IF r.tool = "none" THEN << IF r.target = << >> THEN r.event ELSE "none", Basename(r.target), FALSE >>
    ELSE << r.tool, Basename(r.target), r.event = "PostToolUseFailure" >>

Where(recs, group) ==
    LET sources == { SourceOf(recs[i]) : i \in group }
        count(s) == Cardinality({ i \in group : SourceOf(recs[i]) = s })
        shown == CHOOSE top \in SUBSET sources :
                    /\ Cardinality(top) = Min({MaxSources, Cardinality(sources)})
                    /\ \A s \in top, o \in sources \ top : count(s) >= count(o)
    IN [shown |-> shown, more |-> Cardinality(sources) - Cardinality(shown)]

(* _totals, _custom_totals, and the sum of the bare numbers. *)
Sum(recs, group, counted(_)) ==
    SumOf([i \in DOMAIN recs |-> IF i \in group THEN counted(recs[i]) ELSE 0])
Total(recs, group, t) == Sum(recs, group, LAMBDA r : r.entities[t])
CustomTotal(recs, group) == Sum(recs, group, LAMBDA r : r.custom)
BareTotal(recs) == Sum(recs, Bare(recs), LAMBDA r : r.bare)

-----------------------------------------------------------------------------
(* render. *)

ActionGroup(recs, action) == { i \in ActedOn(recs) : ActionOf(recs[i]) = action }

Line(recs, label, what, count, of) ==
    [label |-> label, what |-> what, count |-> count, of |-> of, where |-> Where(recs, of)]

Labels == << "mask", "unmasked", "deny", "report" >>

ActionLines(recs) ==
    { Line(recs, a, t, Total(recs, ActionGroup(recs, a), t),
           { i \in ActionGroup(recs, a) : recs[i].entities[t] > 0 }) :
        a \in Range(Labels), t \in Types }

(* Bare numbers have no label of their own when a record was a warning:    *)
(* they are read under the last line that has one.                         *)
BareLabel(recs) ==
    LET warned == ActionGroup(recs, "report") # {}
        above == { n \in DOMAIN Labels :
                     \E t \in Types : Total(recs, ActionGroup(recs, Labels[n]), t) > 0 } IN
    IF ~warned THEN "report" ELSE IF above = {} THEN "none" ELSE Labels[Max(above)]

Withheld(recs) == { i \in Uninspected(recs) : recs[i].action = "deny" }
Passed(recs) == { i \in Uninspected(recs) : recs[i].action # "deny" }

OtherLines(recs) ==
    { Line(recs, "custom", Custom, CustomTotal(recs, Prompted(recs)),
           { i \in Prompted(recs) : recs[i].custom > 0 }),
      Line(recs, "skipped", "withheld", Cardinality(Withheld(recs)), Withheld(recs)),
      Line(recs, "skipped", "passed", Cardinality(Passed(recs)), Passed(recs)),
      Line(recs, BareLabel(recs), "bare", BareTotal(recs), Bare(recs)),
      Line(recs, "incomplete", "events", Cardinality(Partial(recs)), Partial(recs)) }
    \cup { Line(recs, "flagged", m, Cardinality(Flagged(recs, {m})), Flagged(recs, {m})) :
             m \in UNION { recs[i].markers : i \in DOMAIN recs } }
    \cup { Line(recs, "model", t, Total(recs, Replies(recs), t), Replies(recs)) : t \in Types }

Render(recs) == { l \in ActionLines(recs) \cup OtherLines(recs) : l.count > 0 }

(* as_json. *)
AsJson(recs) ==
    [ acted |-> Cardinality(ActedOn(recs)),
      actions |-> [ a \in {"mask", "unmasked", "deny", "report"} |->
                      [ events |-> Cardinality(ActionGroup(recs, a)),
                        entities |-> [ t \in Types |-> Total(recs, ActionGroup(recs, a), t) ] ] ],
      notInspected |-> Cardinality(Uninspected(recs)),
      incomplete |-> Cardinality(Incomplete(recs)),
      bare |-> BareTotal(recs),
      modelOutput |-> [ t \in Types |-> Total(recs, Replies(recs), t) ],
      custom |-> CustomTotal(recs, DOMAIN recs) ]

-----------------------------------------------------------------------------
(* The findings of a session (from_records). *)

KnownMarkers == {"hidden"}

(* Mutant: it is the client of the newest of the records.                  *)
MutantClientOf(recs, group) == recs[Max(group)].client

ClientOf(recs, group) == recs[Min(group)].client

RecordFinding(recs, name, group, measures) ==
    IF group = {} THEN {} ELSE
    { FindingOf(name, App(IF ClientOf(recs, group) = "claude" THEN "claude" ELSE "other"),
                << Cardinality(group) >>, Evidence(group), measures,
                IF name = "unmasked_values" THEN [NoImpact EXCEPT !.requests = << Cardinality(group) >>]
                ELSE NoImpact) }

FromRecords(recs) ==
    LET unmasked == ActionGroup(recs, "unmasked") IN
    RecordFinding(recs, "unmasked_values", unmasked, [t \in Types |-> Total(recs, unmasked, t)])
    \cup RecordFinding(recs, "not_inspected", Uninspected(recs) \cup Incomplete(recs),
                       [notInspected |-> Cardinality(Uninspected(recs)),
                        incomplete |-> Cardinality(Incomplete(recs))])
    \cup RecordFinding(recs, "injection_markers", Flagged(recs, KnownMarkers),
                       [m \in KnownMarkers |-> Cardinality(Flagged(recs, {m}))])

-----------------------------------------------------------------------------
(* cli/report.py report(): the newest session's records; the ledger's      *)
(* newest session when there are none and none is known to be missing.     *)
Reported(session, truncated, kept) ==
    IF session # << >> \/ truncated THEN [source |-> "session", records |-> session]
    ELSE IF kept # << >> THEN [source |-> "ledger", records |-> kept]
    ELSE [source |-> "none", records |-> << >>]

-----------------------------------------------------------------------------
SummaryInit == records = << >>

Remember ==
    /\ Len(records) < MaxRecords
    /\ \E r \in Written : records' = Append(records, r)

SummaryNext == Remember

SummarySpec == SummaryInit /\ [][SummaryNext]_records

-----------------------------------------------------------------------------
(* Every finding shim acted on is counted once among the actions' lines    *)
(* and the JSON's, or, when its action is none shim knows, its record is   *)
(* among those not inspected; and so is every record of an event that was  *)
(* not inspected, whatever was done about it.  A line names no place that  *)
(* none of its records was of, each kind of record apart, and says how     *)
(* many it does not name.                                                  *)
SummaryAccounts ==
    LET lines == Render(records)
        skipped == { l \in lines : l.label = "skipped" } IN
    /\ \A t \in Types :
          LET said(a) == AsJson(records).actions[a].entities[t] IN
          said("mask") + said("unmasked") + said("deny") + said("report")
          = Total(records, { i \in ActedOn(records) : records[i].action # "other" }, t)
    /\ \A i \in DOMAIN records :
          /\ HoldsFindings(records[i]) /\ records[i].action # "allow" =>
                \E l \in lines : i \in l.of /\ l.label # "custom"
          /\ records[i].note = "uninspected" =>
                \E l \in lines : i \in l.of /\ l.label = "skipped"
          /\ \A l, m \in { k \in lines : /\ i \in k.of /\ k.what = Custom
                                         /\ k.label \notin {"custom", "model"} } : l = m
    /\ AsJson(records).notInspected = Cardinality(UNION { l.of : l \in skipped })
    /\ \A l \in skipped : l.count = Cardinality(l.of)
    /\ \A l, m \in skipped : l # m => l.of \cap m.of = {}
    /\ \A l \in lines :
          /\ \A i \in l.of : SourceOf(records[i]) \in l.where.shown \/ l.where.more > 0
          /\ \A source \in l.where.shown : \E i \in l.of :
                /\ source[2] = Basename(records[i].target)
                /\ source[3] <=> records[i].tool # "none" /\ records[i].event = "PostToolUseFailure"
          /\ Cardinality(l.where.shown) + l.where.more <= Cardinality(l.of)

(* The findings say what the JSON beside them and the summary's lines say, *)
(* each once; and one that was raised is raised by every later report of   *)
(* the session, with its id, for as many events or more (docs/findings.md).*)
Raised(recs, name) == { f \in FromRecords(recs) : f.id[1] = name }
FindingsStay ==
    LET json == AsJson(records)
        counted(f) == f.occurrences[1] IN
    /\ (json.actions["unmasked"].events > 0) <=> Raised(records, "unmasked_values") # {}
    /\ \A f \in Raised(records, "unmasked_values") :
          f.measures = json.actions["unmasked"].entities /\ counted(f) = json.actions["unmasked"].events
    /\ (\E l \in Render(records) : l.label \in {"skipped", "incomplete"})
          <=> Raised(records, "not_inspected") # {}
    /\ \A f \in Raised(records, "not_inspected") :
          /\ f.measures = [notInspected |-> json.notInspected, incomplete |-> json.incomplete]
          /\ \A l \in Render(records) :
                l.label \in {"skipped", "incomplete"} => counted(f) >= Cardinality(l.of)
    /\ \A f \in Raised(records, "injection_markers") : \A m \in DOMAIN f.measures :
          \E l \in Render(records) : l.label = "flagged" /\ l.what = m /\ l.count = f.measures[m]
    /\ \A f, g \in FromRecords(records) : f.id[1] = g.id[1] => f = g
    /\ \A n \in 0..Len(records) : \A f \in FromRecords(SubSeq(records, 1, n)) :
          \E g \in FromRecords(records) :
             g.id = f.id /\ counted(g) >= counted(f) /\ f.evidence \subseteq g.evidence

(* Both: a summary and its findings account for the records (as_json).     *)
RecordsAreTold == SummaryAccounts /\ FindingsStay

(* "The `custom` line sits under `masked` and has to agree with it"        *)
(* (session/summary.py:230): the user's own names are counted as often as  *)
(* their type is among the actions.                                        *)
CustomAgrees ==
    (\A i \in DOMAIN records : records[i].action # "other") =>
    \A l \in Render(records) :
        l.label = "custom" =>
            l.count = MapThenSumSet(LAMBDA m : m.count,
                        { m \in ActionLines(records) : m.what = Custom })

(* "warned 12 PHONE (bare numbers, left as they were)" on a line of its    *)
(* own (docs/releases/0.3.2.md:37-41): they are read as a warning, not as  *)
(* what was masked or blocked.                                             *)
BareIsWarned == \A l \in Render(records) : l.what = "bare" => l.label = "report"
=============================================================================
