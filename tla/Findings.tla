------------------------------ MODULE Findings ------------------------------
(***************************************************************************)
(* The findings `shim doctor`, `shim report` and `shim watch` add to their *)
(* JSON (cli/findings.py): the rules, what every finding holds, and those  *)
(* of a doctor's checks and of a watch's report; those of a session's      *)
(* records are in Summary.  The texts, the window and the remediation's    *)
(* command are left out; evidence is the references themselves.            *)
(***************************************************************************)
EXTENDS Naturals, FiniteSets, FiniteSetsExt

CONSTANTS
    MaxEvidence,    \* references a finding holds at most
    LargeResult     \* the size above which a tool result is one

ASSUME FindingsAssumption == MaxEvidence \in Nat /\ LargeResult \in Nat

-----------------------------------------------------------------------------
(* The rules. *)

Rule(severity, risk) == [severity |-> severity, risk |-> risk, reversible |-> TRUE]
Low(risk) == Rule("low", risk)
AsUsual == Rule("informational", "reliability")

(* A WARN's rule by the code of its check.                                 *)
DoctorRules ==
    [code \in {"CLIENT_NOT_FOUND", "CLIENT_VERSION_UNKNOWN", "CLIENT_TOO_OLD", "CLIENT_NEWER_THAN_TESTED",
               "CODEX_HOOKS_UNCHECKED", "LEGACY_NAMES_PRESENT", "CUSTOM_PATTERN_UNSAFE", "ARCHIVE_VERSION_SKEW",
               "SESSION_RECORDS_UNWRITABLE", "LEDGER_FOLDER_UNSAFE", "CLIENT_SETTINGS_UNREADABLE",
               "CLIENT_SETTINGS_MALFORMED", "CLIENT_SETTINGS_UNSAFE"} |-> Low("reliability")]
UsualRules ==
    [code \in {"SETTINGS_FILE_ABSENT", "PLUGIN_NOT_DISCOVERABLE", "HOOK_ACTIVATION_UNVERIFIED"} |-> AsUsual]

(* Mutant: events that are not registered are a matter of reliability.     *)
MutantExposingRules ==
    [code \in {"CODEX_HOOKS_DISABLED", "HOOK_NOT_INSTALLED", "DETECTION_DISABLED", "HOOK_RUNNER_FAILED",
               "HOOK_RESOLUTION_FAILED", "CUSTOM_PATTERNS_INACTIVE", "MODE_DEFAULT_WEAKENS", "DUPLICATE_HOOKS",
               "HOOK_EVENTS_MISSING", "SETTINGS_INVALID", "SETTINGS_REFUSED"} |->
        Low(IF code = "HOOK_EVENTS_MISSING" THEN "reliability" ELSE "privacy")]

(* Those of checks that leave something uninspected or unmasked.           *)
ExposingRules ==
    [code \in {"CODEX_HOOKS_DISABLED", "HOOK_NOT_INSTALLED", "DETECTION_DISABLED", "HOOK_RUNNER_FAILED",
               "HOOK_RESOLUTION_FAILED", "CUSTOM_PATTERNS_INACTIVE", "MODE_DEFAULT_WEAKENS", "DUPLICATE_HOOKS",
               "HOOK_EVENTS_MISSING", "SETTINGS_INVALID", "SETTINGS_REFUSED"} |-> Low("privacy")]

SessionRules ==
    [unmasked_values |-> [Rule("medium", "privacy") EXCEPT !.reversible = FALSE],
     not_inspected |-> Rule("medium", "privacy"),
     injection_markers |-> Low("privacy")]

WatchRules ==
    [cache_rewrite |-> Low("cost"), duplicate_in_flight |-> Low("cost"), output_cut_off |-> Low("quality"),
     image_tokens |-> Rule("informational", "cost"), large_tool_result |-> Rule("informational", "cost")]

RuleOf(name) ==
    CASE name \in DOMAIN DoctorRules -> DoctorRules[name]
      [] name \in DOMAIN UsualRules -> UsualRules[name]
      [] name \in DOMAIN ExposingRules -> ExposingRules[name]
      [] name \in DOMAIN SessionRules -> SessionRules[name]
      [] name \in DOMAIN WatchRules -> WatchRules[name]

-----------------------------------------------------------------------------
NoImpact == [requests |-> << >>, tokens |-> << >>, usd |-> << >>]
App(name) == << "app", name >>
Model(name) == << "model", name >>

(* The id is made of the rule and the subject, and of nothing else.        *)
FindingOf(name, subject, occurrences, evidence, measures, impact) ==
    [id |-> << name, subject >>, severity |-> RuleOf(name).severity, risk |-> RuleOf(name).risk,
     occurrences |-> occurrences, evidence |-> evidence, measures |-> measures, impact |-> impact]

(* The first references of those in order. *)
Evidence(indexes) ==
    { i \in indexes : Cardinality({ j \in indexes : j <= i }) <= MaxEvidence }

(* from_checks: one finding per check that did not pass. *)
FromChecks(app, checks) ==
    { [FindingOf(c.code, App(app), << 1 >>, {c.name}, << >>, NoImpact) EXCEPT
          !.severity = IF c.status = "FAIL" THEN "high" ELSE @] :
        c \in { d \in checks : d.status # "PASS" } }

-----------------------------------------------------------------------------
(* from_watch, on the document of a report: its exchanges, and the totals. *)

OrNone(n) == IF n = 0 THEN << >> ELSE << n >>

(* by_model: the requests of each model, those without a price together.   *)
Grouped(doc, indexes) == { << m, { i \in indexes : doc.exchanges[i].pricedAs = m } >> :
                             m \in { doc.exchanges[i].pricedAs : i \in indexes } }

(* Mutant: the session's total is given for each model that rewrote.       *)
MutantRewritten(groups) == TRUE

(* The session's total is one model's only when one model rewrote.         *)
Rewritten(groups) == Cardinality(groups) = 1

RewriteFindings(doc) ==
    LET groups == Grouped(doc, doc.rewrites.requests) IN
    { LET tokens == MapThenSumSet(LAMBDA i : doc.exchanges[i].writes, g[2]) IN
      FindingOf("cache_rewrite", Model(g[1]), << Cardinality(g[2]) >>, Evidence(g[2]),
                [requests |-> Cardinality(g[2]), tokens |-> tokens],
                [NoImpact EXCEPT !.tokens = << tokens >>,
                                 !.usd = IF Rewritten(groups) THEN doc.rewrites.usd ELSE << >>]) :
        g \in groups }

Which(doc, Test(_)) == { i \in DOMAIN doc.exchanges : Test(doc.exchanges[i]) }

DuplicateFindings(doc) ==
    IF doc.duplicates.count = 0 THEN {} ELSE
    { FindingOf("duplicate_in_flight", App("claude"), << doc.duplicates.count >>,
                Evidence(Which(doc, LAMBDA e : e.twice)), doc.duplicates,
                [NoImpact EXCEPT !.requests = << doc.duplicates.count >>,
                                 !.tokens = << doc.duplicates.input >>]) }

CutOffFindings(doc) ==
    { FindingOf("output_cut_off", Model(g[1]), << Cardinality(g[2]) >>, Evidence(g[2]),
                [responses |-> Cardinality(g[2]), requests |-> Cardinality(DOMAIN doc.exchanges)],
                [NoImpact EXCEPT !.requests = << Cardinality(g[2]) >>]) :
        g \in Grouped(doc, Which(doc, LAMBDA e : e.cut)) }

ImageFindings(doc) ==
    IF doc.images.distinct = 0 THEN {} ELSE
    { FindingOf("image_tokens", App("claude"), OrNone(doc.images.requests),
                Evidence(Which(doc, LAMBDA e : e.images > 0)), doc.images,
                [NoImpact EXCEPT !.tokens = << doc.images.tokens >>]) }

ResultFindings(doc) ==
    { FindingOf("large_tool_result", App("claude"), OrNone(r.carried), {},
                [bytes |-> r.size, tokens |-> r.size \div 4, requests |-> r.carried],
                [NoImpact EXCEPT !.tokens = << r.size \div 4 >>]) :
        r \in { s \in doc.largest : s.size > LargeResult } }

FromWatch(doc) ==
    RewriteFindings(doc) \cup DuplicateFindings(doc) \cup CutOffFindings(doc)
    \cup ImageFindings(doc) \cup ResultFindings(doc)
=============================================================================
