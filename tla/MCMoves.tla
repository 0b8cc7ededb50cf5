------------------------------ MODULE MCMoves -------------------------------
(* The files commands change beside hooks, clients and each other: the two  *)
(* moves of cli/migration.py, shim's hooks in a client's settings, the       *)
(* sessions `shim audit --purge` deletes, the months the ledger keeps, and   *)
(* what `shim doctor` says of the hooks, and what `shim config` saves.  A    *)
(* behaviour is of one of the seven: the first four share no file, Retention *)
(* leaves out the month LedgerMove is about, and the users of doctor and     *)
(* config run their commands one after the other.                            *)
EXTENDS SettingsMove, LedgerMove, Doctor, Audit, Retention, Configuration

CONSTANTS c1, c2, r1, r2, h1, h2, m1, m2, i1, i2, v1, s1, s2, pu, sh

MCSessions == << s1, s2 >>

R(kind, age) == [kind |-> kind, age |-> age]
MCFresh == {R("prompt", "new")}
Stored(records) == [at |-> 0, holds |-> records]

(* The first session is any of these; the second has a leak in its main    *)
(* transcript, or none.                                                    *)
Firsts ==
    { << Stored(main), "none", Erased >> :
        main \in {{R("prompt", "new"), R("bad", "none")}, {R("bad", "none")}, {R("tool", "none")},
                  {R("output", "new")}, {R("prompt", "old"), R("partial", "new")}} }
    \cup { << Stored({R("output", "new")}), "tree", Stored({R(kind, "new")}) >> : kind \in {"prompt", "tool"} }
    \cup { << Stored({R("file", "new")}), "link", Erased >> }

MCHistories ==
    { [disk |-> << s1, "main" >> :> first[1] @@ << s1, "agent" >> :> first[3]
                @@ << s2, "main" >> :> Stored(second) @@ << s2, "agent" >> :> Erased,
       folder |-> s1 :> first[2] @@ s2 :> "none",
       past |-> [kind |-> kind, at |-> 0,
                 lines |-> IF kind = "file" THEN << [of |-> s2, at |-> 0], [of |-> s1, at |-> 0] >> ELSE << >>]] :
        first \in Firsts, second \in {{R("prompt", "new")}, {R("output", "new")}},
        kind \in {"none", "link", "file"} }

FirstHistory == CHOOSE h \in MCHistories : TRUE

(* The settings as shipped, and what may not be as it should be.  The      *)
(* checks of it do not depend on one another.                              *)
AsShipped == [version |-> "tested", feature |-> "on", file |-> "read", entities |-> TRUE, custom |-> "ok", weakened |-> FALSE,
              ledger |-> "off", records |-> TRUE, names |-> FALSE]
MCSettings ==
    {AsShipped,
     [AsShipped EXCEPT !.file = "absent", !.custom = "none"],
     [AsShipped EXCEPT !.feature = "off", !.file = "unreadable", !.custom = "unsafe", !.weakened = TRUE, !.ledger = "unsafe"],
     [AsShipped EXCEPT !.version = "silent", !.feature = "silent", !.custom = "unsafe", !.weakened = TRUE, !.ledger = "unsafe"],
     [AsShipped EXCEPT !.version = "newer", !.entities = FALSE, !.custom = "off", !.ledger = "no file",
                       !.records = FALSE, !.names = TRUE]}

(* The files users leave and the options they give. *)
MCEntityTypes == << "EMAIL", "IBAN", "PLATE", "CUSTOM" >>
MCUnsound == {<< "pattern", "broken" >>, << "literal", "ab" >>}
MCSlow == {<< "pattern", "loop" >>}
MCBytes == [text |-> 1, loop |-> 1, broken |-> 1, ab |-> 1, long |-> 4]
Entry(name, kind, text, rest) == [name |-> name, kind |-> kind, text |-> text, rest |-> rest]
MCHandwritten ==
    {NoConfig, Torn, Lacks("mode"), Lacks("limit"), Holds(<< >>),
     Holds([enabled_entities |-> << "IBAN", "EMAIL" >>, diet |-> << "whitespace", "json", "json" >>,
            custom |-> << Entry("A", "pattern", "loop", "ignore_case"), Entry("B", "literal", "long", "whole_word") >>]),
     Holds([mode |-> [default |-> "warn", Stop |-> "observe"], entities |-> [Bash |-> << "PLATE" >>, Read |-> << >>],
            ledger |-> "on", markers |-> "note", reveal |-> [IBAN |-> 2], diet |-> << "false" >>]),
     Holds([enabled_entities |-> << "IBAN", "IBAN" >>]), Holds([mode |-> [Stop |-> "warn"]]),
     Holds([custom |-> << Entry("A", "pattern", "text", "whole_word") >>]),
     Holds([diet |-> << >>, custom |-> << Entry("B", "pattern", "text", "score") >>, ledger |-> "off"])}
MCInvocations ==
    {Plain, [Plain EXCEPT !.reset = TRUE], [Plain EXCEPT !.reset = TRUE, !.ledger = "on"],
     [Plain EXCEPT !.only = {"EMAIL"}, !.literals = << << "B", "text" >> >>],
     [Plain EXCEPT !.only = {"IBAN", "PLATE"}], [Plain EXCEPT !.only = {"IBAN"}, !.enable = {"EMAIL"}],
     [Plain EXCEPT !.enable = {"PLATE"}, !.disable = {"IBAN", "CUSTOM"}, !.patterns = << << "A", "text" >> >>],
     [Plain EXCEPT !.patterns = << << "C", "long" >>, << "C", "text" >> >>, !.literals = << << "A", "long" >> >>],
     [Plain EXCEPT !.patterns = << << "C", "loop" >> >>, !.remove = {"C"}],
     [Plain EXCEPT !.literals = << << "C", "long" >> >>, !.remove = {"A"}],
     [Plain EXCEPT !.literals = << << "A", "ab" >> >>], [Plain EXCEPT !.remove = {"A", "B"}, !.answer = "no"],
     [Plain EXCEPT !.reveal = << << "IBAN", 4 >>, << "IBAN", 3 >> >>, !.ledger = "off"],
     [Plain EXCEPT !.reveal = << << "EMAIL", 2 >> >>], [Plain EXCEPT !.hide = {"IBAN"}, !.ledger = "on"],
     [Plain EXCEPT !.diet = "on", !.enable = {"CUSTOM"}, !.disable = {"CUSTOM"}],
     [Plain EXCEPT !.diet = "off", !.remove = {"A"}], [Plain EXCEPT !.diet = "on", !.answer = "--json"]}

(* A year that is no leap year, from its first day on. *)
MCFirstDay == << 0, 31, 59, 90, 120, 151 >>

-----------------------------------------------------------------------------
VARIABLE part

allvars == << svars, vars, hookvars, docvars, auditvars, retvars, configvars, part >>

Idle(v, p) == part # p => UNCHANGED v

MovesInit ==
    /\ part \in {"settings", "ledger", "hooks", "audit", "retention", "doctor", "config"}
    /\ SInit
    /\ part # "settings" => devices = "one" /\ settings = "none"
    /\ Init
    /\ HooksInit
    /\ part \notin {"hooks", "doctor"} => client = "claude" /\ doc = Broken
    /\ DoctorInit
    /\ AuditInit
    /\ part # "audit" => disk = FirstHistory.disk /\ folder = FirstHistory.folder /\ past = FirstHistory.past
    /\ RetentionInit
    /\ part # "retention" => lost = {} /\ does[sh] = "done"
    /\ ConfigurationInit
    /\ part # "config" => config = NoConfig /\ ~pinned

MovesNext ==
    /\ UNCHANGED part
    /\ Idle(svars, "settings") /\ Idle(vars, "ledger")
    /\ Idle(hookvars, "hooks") /\ Idle(auditvars, "audit")
    /\ Idle(retvars, "retention") /\ Idle(world, "doctor") /\ Idle(configvars, "config")
    /\ \/ part = "settings" /\ SNext
       \/ part = "ledger" /\ Next
       \/ part = "hooks" /\ HooksNext
       \/ part = "audit" /\ AuditNext
       \/ part = "retention" /\ RetentionNext
       \/ part = "doctor" /\ DoctorNext
       \/ part = "config" /\ ConfigurationNext

MovesSpec == MovesInit /\ [][MovesNext]_allvars
=============================================================================
