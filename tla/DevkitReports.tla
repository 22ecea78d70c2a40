--------------------------- MODULE DevkitReports ---------------------------
(***************************************************************************)
(* The commands of DevKit that produce files and report success: the       *)
(* coverage gate (coverage_report.py), the build events of Bazel targets   *)
(* (bep.py) and new projects from templates (bootstrap.py).                *)
(*                                                                         *)
(* Several coverage commands may run at a time, in the project's root or   *)
(* in a directory below it.  Bazel itself runs one command at a time in a  *)
(* workspace and leaves its report there.                                  *)
(***************************************************************************)
EXTENDS Naturals, Sequences, FiniteSets, SequencesExt, Functions

CONSTANTS Gates,        \* invocations of the coverage command
          Files,        \* source files
          Scopes,       \* --target: the files each of the targets covers
          Measured,     \* what Bazel may measure of a file: lf, lh, brf, brh
          Defaults,     \* --lines and --branch, in percent: records lines, branch
          Thresholds,   \* contents of --thresholds-file: per file, lines and branch
          BadThresholds, \* a thresholds file that cannot be read
          MaxRuns,      \* bound: runs of bazel coverage
          TargetLists,  \* arguments of the bep command: labels [dirs, name]
          MaxBeps,      \* bound: runs of the bep command
          Templates     \* the files of a template: what rendering each of them does

VARIABLES release,  \* the release of DevKit in the project
          nested,   \* the directory "sub" of the root is a workspace of its own
          reports,  \* reports[d]: _coverage_report.dat below directory d
          runs,     \* how often bazel coverage has run
          gate,     \* gate[g]: a coverage command
          bep,      \* the bep command
          events,   \* events[n]: the file n/bep.json
          boot,     \* the bootstrap command
          dest      \* dest[f]: the file made from template f

coverageVars == <<release, nested, reports, runs, gate>>
bepVars == <<bep, events>>
bootVars == <<boot, dest>>

----------------------------------------------------------------------------
(* coverage_report.py                                                      *)

Dirs == {"root", "sub", "below"}       \* "below" is a directory of "sub"
NoReport == [run |-> 0, facts |-> <<>>, lines |-> <<>>]

(* Bazel's lcov report of what it has measured, without the lines that     *)
(* only feed the list of what is missing.                                  *)
Record(f, m) ==
    <<[key |-> "SF", file |-> f], [key |-> "BRF", n |-> m.brf], [key |-> "BRH", n |-> m.brh],
      [key |-> "LH", n |-> m.lh], [key |-> "LF", n |-> m.lf], [key |-> "end_of_record"]>>

Lcov(facts) ==
    LET order == SetToSeq(DOMAIN facts) IN
    [i \in 1..6 * Len(order) |->
        LET f == order[((i - 1) \div 6) + 1] IN Record(f, facts[f])[((i - 1) % 6) + 1]]

(* FileCoverage.__init__                                                   *)
FileCoverage == [lf |-> 0, lh |-> 0, brf |-> 0, brh |-> 0]

parse_lcov_data_line(line, c) ==
    CASE line.key = "LF" -> [c EXCEPT !.lf = line.n]
      [] line.key = "LH" -> [c EXCEPT !.lh = line.n]
      [] line.key = "BRF" -> [c EXCEPT !.brf = line.n]
      [] line.key = "BRH" -> [c EXCEPT !.brh = line.n]

(* The loop of generate_lcov_report: a source file starts a new record,    *)
(* data lines belong to the current one.                                   *)
parse_line(acc, line) ==
    CASE line.key = "SF" ->
             [cur |-> {line.file},
              data |-> [f \in DOMAIN acc.data \cup {line.file} |->
                           IF f = line.file THEN FileCoverage ELSE acc.data[f]]]
      [] line.key = "end_of_record" -> [acc EXCEPT !.cur = {}]
      [] OTHER -> [acc EXCEPT !.data =
                      [f \in DOMAIN @ |-> IF f \in acc.cur THEN parse_lcov_data_line(line, @[f])
                                          ELSE @[f]]]

parse(lines) ==
    LET after[n \in 0..Len(lines)] ==
            IF n = 0 THEN [cur |-> {}, data |-> [f \in {} |-> FileCoverage]]
            ELSE parse_line(after[n - 1], lines[n])
    IN after[Len(lines)].data

(* hit / found >= target, which is met by a file without lines or branches.*)
Meets(hit, found, target) == hit * 100 >= target * found

(* A file's own threshold, if there is one.                                *)
Target(g, f, kind) ==
    IF f \in DOMAIN g.own /\ kind \in DOMAIN g.own[f] THEN g.own[f][kind] ELSE g.default[kind]

print_and_validate_report(g, data) ==
    \A f \in DOMAIN data : /\ Meets(data[f].lh, data[f].lf, Target(g, f, "lines"))
                           /\ Meets(data[f].brh, data[f].brf, Target(g, f, "branch"))

NewGate == [pc |-> "new", cwd |-> "root", scope |-> {}, run |-> 0, own |-> <<>>,
            read |-> NoReport, default |-> [lines |-> 100, branch |-> 100]]

(* container-tools, the one project with the older release, has a single   *)
(* workspace; the others may have more (toolchains/sysroot).               *)
CoverageInit ==
    /\ release \in {"3.10.0", "3.11.0"}
    /\ nested \in BOOLEAN
    /\ release = "3.10.0" => ~nested
    /\ reports = [d \in Dirs |-> NoReport]
    /\ runs = 0
    /\ gate = [g \in Gates |-> NewGate]

(* The arguments are checked before Bazel is started.                      *)
coverage_main(g, cwd, scope, default, own) ==
    /\ gate[g].pc = "new"
    /\ gate' = [gate EXCEPT ![g] =
                  IF own = BadThresholds \/ \E k \in DOMAIN default : default[k] > 100
                    THEN [@ EXCEPT !.pc = "failed"]
                    ELSE [@ EXCEPT !.pc = "bazel", !.cwd = cwd, !.scope = scope,
                                   !.default = default, !.own = own]]
    /\ UNCHANGED <<release, nested, reports, runs>>

(* Bazel works in the nearest workspace around the current directory, and  *)
(* reports on the files that the target covers.                            *)
Workspace(cwd) == IF nested /\ cwd # "root" THEN "sub" ELSE "root"

bazel_coverage(g, facts) ==
    /\ gate[g].pc = "bazel"
    /\ runs < MaxRuns
    /\ runs' = runs + 1
    /\ reports' = [reports EXCEPT ![Workspace(gate[g].cwd)] =
                      [run |-> runs + 1, facts |-> facts, lines |-> Lcov(facts)]]
    /\ gate' = [gate EXCEPT ![g].pc = "report", ![g].run = runs + 1]
    /\ UNCHANGED <<release, nested>>

bazel_fails(g) ==
    /\ gate[g].pc = "bazel"
    /\ gate' = [gate EXCEPT ![g].pc = "failed"]
    /\ UNCHANGED <<release, nested, reports, runs>>

(* run_bazel_coverage: the report is the one of the project's root or, as  *)
(* of 3.11.0, the one of the current directory, if there is one.           *)
report_dir_310(cwd) == "root"

report_dir(cwd) ==
    IF release = "3.10.0" THEN report_dir_310(cwd)
    ELSE IF reports[cwd].run > 0 THEN cwd ELSE "root"

generate_lcov_report(g) ==
    LET report == reports[report_dir(gate[g].cwd)]
        valid == report.run > 0 /\ print_and_validate_report(gate[g], parse(report.lines)) IN
    /\ gate[g].pc = "report"
    /\ gate' = [gate EXCEPT ![g].pc = IF valid THEN "passed" ELSE "failed", ![g].read = report]
    /\ UNCHANGED <<release, nested, reports, runs>>

CoverageNext ==
    \E g \in Gates :
        \/ \E cwd \in Dirs, scope \in Scopes, default \in Defaults,
              own \in Thresholds \cup {BadThresholds} : coverage_main(g, cwd, scope, default, own)
        \/ \E facts \in [gate[g].scope -> Measured] : bazel_coverage(g, facts)
        \/ bazel_fails(g)
        \/ generate_lcov_report(g)

----------------------------------------------------------------------------
(* bep.py                                                                  *)

(* A label //x/y:n has directories x, y and a name n, which may be left    *)
(* out and may have a '/' in it.  Each part is the sequence of its words,  *)
(* between '_' and '_': b_c is <<"b", "c">>.                               *)
All == [dirs |-> <<>>, name |-> <<>>]

Labels == {All} \cup UNION {Range(targets) : targets \in TargetLists}

ASSUME ReportsAssumption ==
    /\ IsFiniteSet(Files) /\ Scopes \subseteq SUBSET Files
    /\ TargetLists \subseteq Seq(Labels)

(* ':' becomes '_', which joins the words of the last directory and of the *)
(* name, and what follows the last '/' is the name of the directory;       *)
(* without targets there is one file for all.                              *)
output_file(t) ==
    IF t = All THEN <<>>
    ELSE IF t.name = <<>> THEN <<Last(t.dirs)>>
    ELSE IF Len(t.name) = 1 THEN <<Last(t.dirs) \o t.name[1]>>
    ELSE <<Last(t.name)>>

NewBep == [pc |-> "new", n |-> 0, targets |-> <<>>, next |-> 1]

BepInit ==
    /\ bep = NewBep
    /\ events = [f \in {} |-> All]

generate_bazel_events_folder(targets) ==
    /\ bep.pc \in {"new", "done", "failed"}
    /\ bep.n < MaxBeps
    /\ bep' = [pc |-> "targets", n |-> bep.n + 1, next |-> 1,
               targets |-> IF targets = <<>> THEN <<All>> ELSE targets]
    /\ UNCHANGED events

generate_build_event_json ==
    LET t == bep.targets[bep.next] IN
    /\ bep.pc = "targets" /\ bep.next <= Len(bep.targets)
    /\ events' = [f \in DOMAIN events \cup {output_file(t)} |->
                     IF f = output_file(t) THEN [target |-> t, n |-> bep.n] ELSE events[f]]
    /\ bep' = [bep EXCEPT !.next = @ + 1]

(* run_command exits when Bazel fails, or is not there.                    *)
run_command_fails ==
    /\ bep.pc = "targets" /\ bep.next <= Len(bep.targets)
    /\ bep' = [bep EXCEPT !.pc = "failed"]
    /\ UNCHANGED events

bep_succeeds ==
    /\ bep.pc = "targets" /\ bep.next > Len(bep.targets)
    /\ bep' = [bep EXCEPT !.pc = "done"]
    /\ UNCHANGED events

BepNext ==
    \/ \E targets \in TargetLists : generate_bazel_events_folder(targets)
    \/ generate_build_event_json
    \/ run_command_fails
    \/ bep_succeeds

----------------------------------------------------------------------------
(* bootstrap.py                                                            *)

Kinds == {"good", "syntax error", "undefined name", "unreadable", "include"}

BootInit ==
    /\ boot = [pc |-> "new", todo |-> {}, kind |-> <<>>, error |-> FALSE]
    /\ dest \in [Templates -> {"absent", "old"}]

(* The arguments are pairs key=value and the template exists, or not.      *)
copy_and_template(kind) ==
    /\ boot.pc = "new"
    /\ boot' = [pc |-> "files", todo |-> {f \in Templates : kind[f] # "include"},
                kind |-> kind, error |-> FALSE]
    /\ UNCHANGED dest

bad_arguments ==
    /\ boot.pc = "new"
    /\ boot' = [boot EXCEPT !.pc = "failed"]
    /\ UNCHANGED dest

(* A file is opened for writing before it is rendered, but after it has    *)
(* been parsed.  After an error the other files are still made.            *)
render_LastCounts(f) ==                    \* mutant: a later success hides an error
    LET k == boot.kind[f] IN
    /\ boot.pc = "files" /\ f \in boot.todo
    /\ k \in {"good", "syntax error", "undefined name"}
    /\ boot' = [boot EXCEPT !.todo = @ \ {f}, !.error = k # "good"]
    /\ dest' = [dest EXCEPT ![f] = CASE k = "good" -> "rendered"
                                     [] k = "undefined name" -> "empty"
                                     [] OTHER -> @]

render(f) ==
    LET k == boot.kind[f] IN
    /\ boot.pc = "files" /\ f \in boot.todo
    /\ k \in {"good", "syntax error", "undefined name"}
    /\ boot' = [boot EXCEPT !.todo = @ \ {f}, !.error = @ \/ k # "good"]
    /\ dest' = [dest EXCEPT ![f] = CASE k = "good" -> "rendered"
                                     [] k = "undefined name" -> "empty"
                                     [] OTHER -> @]

(* Any other exception ends the command.                                   *)
cannot_read(f) ==
    /\ boot.pc = "files" /\ f \in boot.todo
    /\ boot.kind[f] = "unreadable"
    /\ boot' = [boot EXCEPT !.pc = "failed"]
    /\ UNCHANGED dest

bootstrap_ends ==
    /\ boot.pc = "files" /\ boot.todo = {}
    /\ boot' = [boot EXCEPT !.pc = IF boot.error THEN "failed" ELSE "done"]
    /\ UNCHANGED dest

BootNext ==
    \/ \E kind \in [Templates -> Kinds] : copy_and_template(kind)
    \/ bad_arguments
    \/ \E f \in boot.todo : render(f) \/ cannot_read(f)
    \/ bootstrap_ends

----------------------------------------------------------------------------
(* Properties.                                                             *)

(* Bazel's report is looked for where Bazel leaves it: in the workspace's  *)
(* directory, or in the project's root.  (Below the root of a workspace of *)
(* its own there is no report, and the code reads the root's, which may be *)
(* that of any earlier run: coverage_report.py:347-357.)                   *)
Placed(g) == gate[g].cwd = Workspace(gate[g].cwd) \/ Workspace(gate[g].cwd) = "root"

(* Another command with a target that leaves out some of the files has run *)
(* in the workspace after g has.                                           *)
Overtaken(g) ==
    \E h \in Gates : /\ Workspace(gate[h].cwd) = Workspace(gate[g].cwd)
                     /\ gate[h].run > gate[g].run
                     /\ ~(gate[g].scope \subseteq gate[h].scope)

(* A coverage command that passes has read a report of all the files of    *)
(* its target that is not older than its own run of Bazel, whichever       *)
(* commands ran before and beside it - unless it was started below the     *)
(* root of a nested workspace, or a narrower one has overtaken it; and     *)
(* every file in the report it has read reaches the thresholds that apply  *)
(* to it.                                                                  *)
GateIsHonest ==
    \A g \in Gates : gate[g].pc = "passed" =>
        /\ Placed(g) => gate[g].read.run >= gate[g].run
        /\ Placed(g) /\ ~Overtaken(g) => gate[g].scope \subseteq DOMAIN gate[g].read.facts
        /\ \A f \in DOMAIN gate[g].read.facts :
              LET m == gate[g].read.facts[f] IN
              /\ Meets(m.lh, m.lf, Target(gate[g], f, "lines"))
              /\ Meets(m.brh, m.brf, Target(gate[g], f, "branch"))

(* bep.py and bootstrap.py go on after some failures and leave files of    *)
(* earlier runs behind; when they report success, all is there: the events *)
(* of every target, from this run, in the file of its name - unless a      *)
(* later target has the same file, as //a:b_c and //a_b:c (bep.py:145) -,  *)
(* and every file of the template.                                         *)
SuccessIsComplete ==
    /\ bep.pc = "done" =>
          \A i \in DOMAIN bep.targets :
             LET f == output_file(bep.targets[i]) IN
             \/ \E j \in DOMAIN bep.targets : j > i /\ output_file(bep.targets[j]) = f
             \/ f \in DOMAIN events /\ events[f] = [target |-> bep.targets[i], n |-> bep.n]
    /\ boot.pc = "done" =>
          \A f \in Templates : boot.kind[f] # "include" => dest[f] = "rendered"

----------------------------------------------------------------------------
(* The three commands side by side, for the proofs; what they share with   *)
(* the other commands is in DevkitCommands.                                *)

ReportsVars == <<coverageVars, bepVars, bootVars>>

ReportsNext ==
    \/ CoverageNext /\ UNCHANGED <<bepVars, bootVars>>
    \/ BepNext /\ UNCHANGED <<coverageVars, bootVars>>
    \/ BootNext /\ UNCHANGED <<coverageVars, bepVars>>

ReportsSpec == CoverageInit /\ BepInit /\ BootInit /\ [][ReportsNext]_ReportsVars

(* A report is what Bazel has measured in some command's run; only a       *)
(* workspace of its own has one below the root.  A command waits for the   *)
(* report of its run, or has read it.                                      *)
GateInv ==
    /\ runs \in Nat
    /\ release = "3.10.0" => ~nested
    /\ DOMAIN reports = Dirs
    /\ \A d \in Dirs : /\ DOMAIN reports[d] = DOMAIN NoReport
                       /\ reports[d].run \in 0..runs
                       /\ reports[d].run > 0 =>
                             /\ reports[d].lines = Lcov(reports[d].facts)
                             /\ \E h \in Gates : /\ gate[h].run = reports[d].run
                                                 /\ Workspace(gate[h].cwd) = d
                                                 /\ reports[d].facts \in [gate[h].scope -> Measured]
    /\ ~nested => reports["sub"].run = 0
    /\ reports["below"].run = 0
    /\ DOMAIN gate = Gates
    /\ \A g \in Gates :
          /\ DOMAIN gate[g] = DOMAIN NewGate
          /\ gate[g].cwd \in Dirs
          /\ gate[g].scope \subseteq Files
          /\ gate[g].run \in 0..runs
          /\ gate[g].pc \in {"new", "bazel"} => gate[g].run = 0
          /\ \A h \in Gates : gate[g].run = gate[h].run /\ gate[g].run > 0 => g = h
          /\ gate[g].pc = "report" =>
                gate[g].run \in 1..runs /\ reports[Workspace(gate[g].cwd)].run >= gate[g].run
    /\ GateIsHonest

(* The events of the targets that are done are there, but for those that a *)
(* later one has written over.                                             *)
BepInv ==
    /\ bep \in [pc : {"new", "targets", "failed", "done"}, n : Nat, targets : Seq(Labels), next : Nat \ {0}]
    /\ bep.pc = "done" => bep.next > Len(bep.targets)
    /\ \A i \in 1..Len(bep.targets) : i < bep.next =>
          \/ \E j \in 1..Len(bep.targets) :
                i < j /\ j < bep.next /\ output_file(bep.targets[j]) = output_file(bep.targets[i])
          \/ /\ output_file(bep.targets[i]) \in DOMAIN events
             /\ events[output_file(bep.targets[i])] = [target |-> bep.targets[i], n |-> bep.n]

(* A file that is done is rendered, or there was an error.                 *)
BootInv ==
    /\ DOMAIN boot = {"pc", "todo", "kind", "error"}
    /\ DOMAIN dest = Templates
    /\ boot.error \in BOOLEAN
    /\ boot.pc = "files" =>
          \A f \in Templates \ boot.todo :
             boot.kind[f] = "include" \/ boot.error \/ dest[f] = "rendered"
    /\ boot.pc = "done" =>
          \A f \in Templates : boot.kind[f] = "include" \/ dest[f] = "rendered"

ReportsInv == GateInv /\ BepInv /\ BootInv
=============================================================================
