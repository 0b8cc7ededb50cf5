------------------------------- MODULE Audit --------------------------------
(***************************************************************************)
(* `shim audit` and `shim audit --purge` (cli/audit.py) beside a Claude    *)
(* Code that still writes its history.                                     *)
(*                                                                         *)
(* A session has a transcript ("main") and may have, in a folder of its    *)
(* name, a sub-agent's ("agent"); history.jsonl holds lines of all of      *)
(* them.  The command lists the files, takes each one's status before it   *)
(* reads it, and says what reached the model.  With --purge it asks, drops *)
(* the sessions whose files changed, rewrites history.jsonl, and removes   *)
(* each session's folder and last its transcript.  It may die at any step, *)
(* and any call on a file may fail.                                        *)
(*                                                                         *)
(* `at` is when a file was last written: all a status tells apart.  A file *)
(* holds records of a kind and an age: "new", "old" (before --since) or    *)
(* "none" (no timestamp).  A file with old records alone is not read under *)
(* --since, which finds what reading it would: nothing.                    *)
(***************************************************************************)
EXTENDS Integers, Sequences, FiniteSets, SequencesExt, Filters

CONSTANTS
    Sessions,       \* a sequence: in the order they are listed
    Histories,      \* the files, folders and history.jsonl there may be
    Fresh,          \* the records Claude Code adds
    MaxWrites       \* bound: how often Claude Code writes

Gone == -1
Unseen == -2
Names == Range(Sessions)
Files == Names \X {"main", "agent"}
Of(f) == f[1]

HistoryLines == [of : Names, at : Nat]
Pasts == [kind : {"none", "link", "file"}, at : Nat, lines : Seq(HistoryLines)]

ASSUME AuditAssumption ==
    /\ MaxWrites \in Nat /\ Sessions \in Seq(Names) /\ IsInjective(Sessions)
    /\ \A h \in Histories :
          /\ DOMAIN h.disk = Files /\ \A f \in Files : h.disk[f].at \in {Gone, 0}
          /\ DOMAIN h.folder = Names
          /\ h.past \in Pasts /\ h.past.at = 0 /\ \A l \in Range(h.past.lines) : l.at = 0
          /\ h.past.kind # "file" => h.past.lines = << >>

VARIABLES
    disk,       \* of each file: when it was last written, and its records
    folder,     \* each session's folder: "none", "link" or "tree"
    past,       \* history.jsonl: what it is, when it was written, its lines
    point,      \* what the command does next
    todo,       \* the files, then the sessions, it has still to visit
    seen,       \* the status of each file before it was read
    reached,    \* the values found on their way to the model, by session
    dated,      \* the sessions with a record that has a time
    spoilt,     \* a line or a text could not be read
    ready,      \* the sessions found unchanged, each with the time of the look
    copy,       \* what _forget has read
    status,     \* the status it compares with
    outcome,       \* what the command says at its end
    taken,      \* history: what it removed
    writes      \* the clock: Claude Code's writes so far

auditvars == << disk, folder, past, point, todo, seen, reached, dated, spoilt,
                ready, copy, status, outcome, taken, writes >>
scanned == << seen, reached, dated, spoilt >>
stored == << disk, folder, past >>

Erased == [at |-> Gone, holds |-> {}]
On(f) == disk[f].at # Gone

AuditInit ==
    /\ \E h \in Histories : disk = h.disk /\ folder = h.folder /\ past = h.past
    /\ point = "list" /\ todo = << >>
    /\ seen = [f \in Files |-> Unseen]
    /\ reached = [s \in Names |-> {}] /\ dated = {} /\ spoilt = FALSE
    /\ ready = << >> /\ copy = << >> /\ status = 0
    /\ outcome = "" /\ taken = {} /\ writes = 0

-----------------------------------------------------------------------------
(* Claude Code.                                                            *)

ClaudeWrites(f) ==
    /\ writes < MaxWrites /\ writes' = writes + 1
    /\ f[2] = "agent" => folder[Of(f)] # "link"
    /\ \E r \in Fresh :
           disk' = [disk EXCEPT ![f] = [at |-> writes',
                                        holds |-> (IF On(f) THEN @.holds ELSE {}) \cup {r}]]
    /\ folder' = IF f[2] = "agent" THEN [folder EXCEPT ![Of(f)] = "tree"] ELSE folder
    /\ UNCHANGED << past, point, todo, scanned, ready, copy, status, outcome, taken >>

ClaudeRemembers(s) ==
    /\ past.kind = "file" /\ writes < MaxWrites /\ writes' = writes + 1
    /\ past' = [past EXCEPT !.at = writes', !.lines = Append(@, [of |-> s, at |-> writes'])]
    /\ UNCHANGED << disk, folder, point, todo, scanned, ready, copy, status, outcome, taken >>

-----------------------------------------------------------------------------
(* The scan.                                                               *)

(* _session_files, and the order they come in. *)
Listed == { f \in Files : /\ On(<< Of(f), "main" >>)
                          /\ f[2] = "agent" => folder[Of(f)] = "tree" /\ On(f) }
InOrder == [k \in 1..(2 * Len(Sessions)) |->
               << Sessions[(k + 1) \div 2], IF k % 2 = 1 THEN "main" ELSE "agent" >>]

List ==
    /\ point = "list" /\ point' = "look"
    /\ todo' = Without(InOrder, Files \ Listed)
    /\ UNCHANGED << stored, scanned, ready, copy, status, outcome, taken, writes >>

(* _first_cwd, for which no unreadable line counts. *)
Placed(s) == On(<< s, "main" >>) /\ \E r \in disk[<< s, "main" >>].holds : r.kind # "bad"

LookAt ==
    /\ point = "look" /\ todo # << >>
    /\ LET f == Head(todo) IN
       \/ /\ f[2] = "main"                \* _first_cwd: OSError, or no project
          /\ todo' = Without(todo, {g \in Files : Of(g) = Of(f)})
          /\ \/ spoilt' = TRUE
             \/ On(f) /\ ~Placed(Of(f)) /\ UNCHANGED spoilt
          /\ UNCHANGED << point, seen >>
       \/ /\ Placed(Of(f)) /\ todo' = Tail(todo) /\ spoilt' = TRUE     \* lstat: OSError
          /\ UNCHANGED << point, seen >>
       \/ /\ Placed(Of(f)) /\ On(f)
          /\ seen' = [seen EXCEPT ![f] = disk[f].at] /\ point' = "read"
          /\ UNCHANGED << todo, spoilt >>
    /\ UNCHANGED << stored, reached, dated, ready, copy, status, outcome, taken, writes >>

(* _texts, under --since. *)
Reaches(f, r) ==
    /\ r.age # "old"
    /\ r.kind \in IF f[2] = "agent" THEN {"tool", "file"} ELSE {"prompt", "tool", "file"}

(* The loop of _scan over one file; an OSError may end it anywhere. *)
ReadFile ==
    /\ point = "read" /\ point' = "look" /\ todo' = Tail(todo)
    /\ LET f == Head(todo) IN
       \E part \in SUBSET disk[f].holds :
           /\ reached' = [reached EXCEPT ![Of(f)] = @ \cup {<< f, r >> : r \in {x \in part : Reaches(f, x)}}]
           /\ dated' = IF \E r \in part : r.age = "new" /\ r.kind # "bad"
                       THEN dated \cup {Of(f)} ELSE dated
           /\ spoilt' = (spoilt \/ part # disk[f].holds \/ ~On(f)
                           \/ \E r \in part : r.kind \in {"bad", "partial"})
    /\ UNCHANGED << stored, seen, ready, copy, status, outcome, taken, writes >>

Found == {s \in dated : reached[s] # {}}

(* audit: what it exits with. *)
Verdict == IF Found # {} THEN "findings" ELSE IF spoilt THEN "incomplete" ELSE "safe"

-----------------------------------------------------------------------------
(* _purge.                                                                 *)

Ends(what) == point' = "ended" /\ outcome' = what /\ UNCHANGED todo

Ask ==
    /\ point = "look" /\ todo = << >>
    /\ \/ Ends("nothing")                                       \* no --purge, or not "delete N"
       \/ Found # {} /\ point' = "check" /\ UNCHANGED outcome
          /\ todo' = Without(Sessions, Names \ Found)
    /\ UNCHANGED << stored, scanned, ready, copy, status, taken, writes >>

Unchanged(s) == \A f \in {g \in Files : Of(g) = s /\ seen[g] # Unseen} : disk[f].at = seen[f]

Check ==
    /\ point = "check"
    /\ IF todo = << >>
       THEN point' = "forget" /\ todo' = [i \in DOMAIN ready |-> ready[i].of] /\ UNCHANGED ready
       ELSE /\ \/ /\ Unchanged(Head(todo))
                  /\ ready' = Append(ready, [of |-> Head(todo), at |-> writes])
               \/ UNCHANGED ready            \* changed, or OSError
            /\ todo' = Tail(todo) /\ UNCHANGED point
    /\ UNCHANGED << stored, scanned, copy, status, outcome, taken, writes >>

(* _forget, to the status it compares with. *)
ForgetLook ==
    /\ point = "forget"
    /\ \/ ready = << >> /\ point' = "folder" /\ UNCHANGED << todo, outcome, status >>
       \/ past.kind = "none" /\ point' = "folder" /\ UNCHANGED << todo, outcome, status >>
       \/ ready # << >> /\ past.kind = "link" /\ Ends("nothing") /\ UNCHANGED status
       \/ /\ ready # << >> /\ past.kind = "file" /\ status' = past.at
          /\ point' = "reading" /\ UNCHANGED << todo, outcome >>
    /\ UNCHANGED << stored, scanned, ready, copy, taken, writes >>

Forgotten(line) == \E i \in DOMAIN ready : ready[i].of = line.of
Kept(all) == Without(all, {l \in Range(all) : Forgotten(l)})

ForgetRead ==
    /\ point = "reading"
    /\ \/ Ends("nothing") /\ UNCHANGED copy                     \* OSError
       \/ /\ copy' = past.lines /\ UNCHANGED << todo, outcome >>
          /\ point' = IF Kept(copy') = copy' THEN "folder" ELSE "compare"
    /\ UNCHANGED << stored, scanned, ready, status, taken, writes >>

(* Mutant: the file that was written is put there whatever came meanwhile. *)
MutantForgetCompare ==
    /\ point = "compare" /\ point' = "replace" /\ status' = writes
    /\ UNCHANGED << stored, scanned, todo, ready, copy, outcome, taken, writes >>

(* The temporary file is written; the status is compared. *)
ForgetCompare ==
    /\ point = "compare"
    /\ \/ Ends("nothing")
       \/ past.at = status /\ point' = "replace" /\ UNCHANGED << todo, outcome >>
    /\ status' = writes             \* history: when it was compared
    /\ UNCHANGED << stored, scanned, ready, copy, taken, writes >>

(* os.replace. *)
ForgetReplace ==
    /\ point = "replace"
    /\ \/ Ends("nothing") /\ UNCHANGED << past, taken >>
       \/ /\ past' = [past EXCEPT !.lines = Kept(copy)]
          /\ taken' = taken \cup {[line |-> l, at |-> status] : l \in Range(past.lines) \ Range(Kept(copy))}
          /\ point' = "folder" /\ UNCHANGED << todo, outcome >>
    /\ UNCHANGED << disk, folder, scanned, ready, copy, status, writes >>

Removes(f) ==
    IF ~On(f) THEN taken
    ELSE taken \cup {[file |-> f, was |-> disk[f].at, seen |-> seen[f], at |-> r.at] :
                        r \in {x \in Range(ready) : x.of = Of(f)}}

(* The first of session.files: where the transcript's own status could not *)
(* be taken, a sub-agent's.                                                *)
Transcript(s) == IF seen[<< s, "main" >>] # Unseen THEN << s, "main" >> ELSE << s, "agent" >>

(* The folder: a link, a tree, or none; a tree may be left without some of *)
(* its files.  A sub-agent's transcript has none.                          *)
RemoveFolder ==
    /\ point = "folder" /\ todo # << >>
    /\ LET s == Head(todo) agent == << Head(todo), "agent" >> IN
       \/ Transcript(s) = agent /\ point' = "main" /\ UNCHANGED << todo, folder, disk, taken >>
       \/ /\ Transcript(s) # agent
          /\ \/ /\ point' = "main" /\ UNCHANGED todo
                /\ folder' = [folder EXCEPT ![s] = "none"]
                /\ disk' = [disk EXCEPT ![agent] = Erased] /\ taken' = Removes(agent)
             \/ /\ folder[s] # "none" /\ todo' = Tail(todo) /\ UNCHANGED << point, folder >>
                /\ \/ UNCHANGED << disk, taken >>
                   \/ disk' = [disk EXCEPT ![agent] = Erased] /\ taken' = Removes(agent)
    /\ UNCHANGED << past, scanned, ready, copy, status, outcome, writes >>

RemoveTranscript ==
    /\ point = "main" /\ point' = "folder" /\ todo' = Tail(todo)
    /\ LET transcript == Transcript(Head(todo)) IN
       \/ UNCHANGED << disk, taken >>
       \/ disk' = [disk EXCEPT ![transcript] = Erased] /\ taken' = Removes(transcript)
    /\ UNCHANGED << folder, past, scanned, ready, copy, status, outcome, writes >>

PurgeEnds ==
    /\ point = "folder" /\ todo = << >> /\ Ends("deleted")
    /\ UNCHANGED << stored, scanned, ready, copy, status, taken, writes >>

(* A kill, or Ctrl-C, at any line. *)
AuditDies ==
    /\ point \notin {"ended", "dead"} /\ point' = "dead"
    /\ UNCHANGED << stored, scanned, todo, ready, copy, status, outcome, taken, writes >>

AuditOver == point \in {"ended", "dead"} /\ UNCHANGED auditvars

AuditNext ==
    \/ \E f \in Files : ClaudeWrites(f)
    \/ \E s \in Names : ClaudeRemembers(s)
    \/ List \/ LookAt \/ ReadFile \/ Ask \/ Check
    \/ ForgetLook \/ ForgetRead \/ ForgetCompare \/ ForgetReplace
    \/ RemoveFolder \/ RemoveTranscript \/ PurgeEnds
    \/ AuditDies \/ AuditOver

AuditSpec == AuditInit /\ [][AuditNext]_auditvars

-----------------------------------------------------------------------------
Lines == {t \in taken : "line" \in DOMAIN t}
Deleted == {t \in taken : "file" \in DOMAIN t}
FilesTaken(kind) == {t \in Deleted : t.file[2] = kind}

(* "safe" is said only when no file as it was read holds what reached the  *)
(* model, of a session that has a project and a time (audit).              *)
SafeWasRead ==
    point = "look" /\ todo = << >> /\ Verdict = "safe" =>
        \A f \in Files : Of(f) \in dated /\ seen[f] = disk[f].at =>
            ~\E r \in disk[f].holds : Reaches(f, r)

(* A file that goes is of a session in which something was found, and goes *)
(* after that session's lines of history; if the scan looked at it, it was *)
(* still the same when its session was checked.  The session's own         *)
(* transcript goes only if the scan looked at it, and after its folder: a  *)
(* session whose transcript it could not look at keeps it, and loses a     *)
(* sub-agent's in its place.  What a folder holds that the scan did not    *)
(* list goes unseen.  What another session has in history.jsonl stays, but *)
(* for a line that came between the comparison and the rename; and         *)
(* "nothing was deleted" is true (_purge, _forget).                        *)
DeletesWhatItSaid ==
    /\ \A t \in Deleted :
           /\ seen[t.file] # Unseen /\ t.was <= t.at => t.was = t.seen
           /\ reached[Of(t.file)] # {}
           /\ past.kind # "link"
           /\ \A l \in Range(past.lines) : l.of = Of(t.file) => l.at > 0
    /\ \A t \in FilesTaken("main") :
           /\ seen[t.file] # Unseen
           /\ \A f \in Files : Of(f) = Of(t.file) /\ f[2] = "agent" => disk[f].at \notin 0 .. t.at
    /\ \A t \in Lines : Forgotten(t.line) \/ t.line.at > t.at
    /\ outcome = "nothing" => taken = {}

AuditIsExact == SafeWasRead /\ DeletesWhatItSaid

(* The inductive invariant.  Whatever Claude Code writes is later than what *)
(* was looked at; what was read of a file that is still the same is in     *)
(* reached; a session that is ready was found and has not changed but      *)
(* later; and a history that was looked through has no line of such a      *)
(* session but later ones.                                                 *)
Scanning == {"list", "look", "read", "check", "forget", "reading", "compare", "replace"}
Removing == {"folder", "main"}
Looks == [of : Names, at : Nat]

ClockInv ==
    /\ DOMAIN disk = Files /\ DOMAIN folder = Names /\ writes \in Nat
    /\ \A f \in Files : disk[f].at \in -1 .. writes
    /\ past \in Pasts /\ past.at <= writes /\ (past.kind # "file" => past.lines = << >>)
    /\ status \in 0 .. writes /\ copy \in Seq(HistoryLines)
    /\ ready \in Seq(Looks) /\ \A r \in Range(ready) : r.at <= writes

PointInv ==
    /\ point \in Scanning \cup Removing \cup {"ended", "dead"}
    /\ point \in {"look", "read"} => todo \in Seq(Files)
    /\ point \in {"forget", "reading", "compare", "replace"} \cup Removing => todo \in Seq(Names)
    /\ point \in {"read", "main"} => todo # << >>
    /\ point \in Scanning => taken = {}
    /\ point \in {"list", "look", "read"} => ready = << >>
    /\ outcome # "" => point = "ended"
    /\ outcome = "nothing" => taken = {}

Looked == {f \in Files : seen[f] # Unseen}
WasRead(f) == \A r \in disk[f].holds : Reaches(f, r) => << f, r >> \in reached[Of(f)]

ScanInv ==
    /\ seen \in [Files -> Int] /\ \A f \in Looked : seen[f] \in 0 .. writes
    /\ DOMAIN reached = Names /\ dated \subseteq Names
    /\ point = "read" => Head(todo) \in Looked
    /\ ~spoilt /\ point \in {"list", "look", "read"} => \A f \in Files :
          seen[f] = disk[f].at /\ ~(point = "read" /\ f = Head(todo)) => WasRead(f)

WasFound(r) ==
    /\ reached[r.of] # {}
    /\ \A f \in Looked : Of(f) = r.of /\ disk[f].at \in 0 .. r.at => disk[f].at = seen[f]

ReadyInv ==
    /\ point = "check" => todo \in Seq(Found)
    /\ \A r \in Range(ready) : WasFound(r)

ForgetInv ==
    /\ point \in {"reading", "compare", "replace"} => past.kind = "file"
    /\ point = "compare" /\ past.at = status => past.lines = copy
    /\ point = "replace" => \A l \in Range(past.lines) : l \in Range(copy) \/ l.at > status
    /\ point \in Removing \/ taken # {} =>
          /\ ready = << >> \/ past.kind # "link"
          /\ \A l \in Range(past.lines) : Forgotten(l) => l.at > 0

LineWent(t) ==
    /\ t \in [line : HistoryLines, at : Nat]
    /\ Forgotten(t.line) \/ t.line.at > t.at

FileWent(t) ==
    /\ t \in [file : Files, was : Nat, seen : Int, at : Nat]
    /\ t.seen = seen[t.file] /\ \E r \in Range(ready) : r.of = Of(t.file) /\ r.at = t.at
    /\ t.file \in Looked /\ t.was <= t.at => t.was = t.seen
    /\ t.file[2] = "main" =>
           /\ t.file \in Looked
           /\ \A f \in Files : Of(f) = Of(t.file) /\ f[2] = "agent" => disk[f].at \notin 0 .. t.at

TakenInv ==
    /\ point = "main" /\ Transcript(Head(todo))[2] = "main" =>
          \A r \in Range(ready) : disk[<< Head(todo), "agent" >>].at \notin 0 .. r.at
    /\ \A t \in taken : LineWent(t) \/ FileWent(t)

AuditInv == ClockInv /\ PointInv /\ ScanInv /\ ReadyInv /\ ForgetInv /\ TakenInv

(* docs/commands.md: exits 0 "only when every line was read, every text    *)
(* inspected and nothing reached the model".                               *)
SafeIsSafe ==
    point = "look" /\ todo = << >> /\ Verdict = "safe" =>
        \A f \in Files : seen[f] = disk[f].at => ~\E r \in disk[f].holds : Reaches(f, r) \/ r.kind = "bad"

(* docs/commands.md: "A session whose files changed during the run is      *)
(* skipped".                                                               *)
ChangedIsSkipped == \A t \in FilesTaken("agent") : t.was <= t.at => t.was = t.seen

(* docs/privacy.md: "a session whose folder could not be fully deleted is  *)
(* kept and found again by the next run".                                  *)
KeptIsFoundAgain ==
    point = "ended" => \A t \in FilesTaken("agent") :
        On(<< Of(t.file), "main" >>) /\ folder[Of(t.file)] = "tree" =>
            \E f \in Files : Of(f) = Of(t.file) /\ \E r \in disk[f].holds : Reaches(f, r)

(* docs/commands.md: "it deletes the folder of the same name beside the    *)
(* transcript [...] and last the transcript".                              *)
TranscriptIsLast == point = "main" => Transcript(Head(todo))[2] = "main"
=============================================================================
