---------------------------- MODULE DevkitMounts ----------------------------
(***************************************************************************)
(* Where a DevKit container finds the project and all that the symbolic    *)
(* links in it lead to: find_project_root.py, list_external_mounts.py and  *)
(* the mounts docker_run.py asks for.                                      *)
(*                                                                         *)
(* A path is a sequence of names, "/" the empty one.  The file system      *)
(* gives every path its node: nothing, a file, a directory or a link with  *)
(* an absolute or relative target.  Somebody may delete links while they   *)
(* are being scanned.                                                      *)
(***************************************************************************)
EXTENDS Naturals, Sequences, FiniteSets, SequencesExt

CONSTANTS FileSystems,  \* the file systems the project may be in
          Pwds,         \* the directories a command may be given in, by any name
          Existing,     \* the mounts that docker_run.py asks for in any case
          Devkit,       \* the name "devkit" that marks a project
          Bazel,        \* the names that start with "bazel-": links to build output
          Venv,         \* the name ".venv"
          MaxDeletions  \* bound: links deleted during the scan

VARIABLES fs,         \* the file system
          pwd,        \* $PWD
          phase,      \* "start", "scan", "done" or "noroot"
          worklist,   \* directories to scan
          scanned,    \* those that have been scanned
          links,      \* links found in the current directory, not yet processed
          chain,      \* the link that is being followed, and those followed before
          external,   \* external_paths
          mounts      \* the result of get_minimal_mounts

mountVars == <<fs, pwd, phase, worklist, scanned, links, chain, external, mounts>>

----------------------------------------------------------------------------
(* The operating system.  A view is a file system together with a table of *)
(* what is mounted where: the host's own table is trivial.                 *)

Up == ".."
Nowhere == <<"?">>
Nothing == [kind |-> "none"]
Directory == [kind |-> "dir"]
IsLink(n) == n.kind = "link"

Links == {p \in DOMAIN fs : IsLink(fs[p])}

Host == [at |-> fs, table |-> [m \in {<<>>} |-> <<>>]]

(* What is mounted on the longest prefix of p decides where p is.          *)
HostPath(view, p) ==
    LET points == {m \in DOMAIN view.table : IsPrefix(m, p)}
        point == CHOOSE m \in points : \A n \in points : Len(n) <= Len(m)
    IN  IF points = {} \/ view.table[point] = Nowhere THEN Nowhere
        ELSE view.table[point] \o SubSeq(p, Len(point) + 1, Len(p))

Node(view, p) ==
    LET h == HostPath(view, p) IN
    IF h = <<>> \/ \E m \in DOMAIN view.table : IsStrictPrefix(p, m) THEN Directory
    ELSE IF h \in DOMAIN view.at THEN view.at[h]
    ELSE Nothing

(* Path lookup: here is a directory without links in its name, rest has to *)
(* be followed; hops limits the links that are followed.                   *)
RECURSIVE Lookup(_, _, _, _)
Lookup(view, here, rest, hops) ==
    IF rest = <<>> THEN here
    ELSE IF Node(view, here).kind # "dir" THEN Nowhere
    ELSE IF Head(rest) = Up
      THEN Lookup(view, IF here = <<>> THEN here ELSE Front(here), Tail(rest), hops)
    ELSE LET next == Append(here, Head(rest))
             node == Node(view, next) IN
         IF node = Nothing \/ (IsLink(node) /\ hops = 0) THEN Nowhere
         ELSE IF IsLink(node)
           THEN Lookup(view, IF node.relative THEN here ELSE <<>>,
                       node.target \o Tail(rest), hops - 1)
         ELSE Lookup(view, next, Tail(rest), hops)

Hops == Cardinality(Links)
resolve(p) == Lookup(Host, <<>>, p, Hops)
exists(p) == resolve(p) # Nowhere
is_dir(p) == exists(p) /\ Node(Host, resolve(p)).kind = "dir"

(* The node a path names, when its last name is not followed.              *)
LinkNode(p) ==
    LET dir == resolve(Front(p)) IN
    IF p = <<>> \/ Last(p) = Up THEN Nothing
    ELSE IF dir = Nowhere THEN Nothing ELSE Node(Host, Append(dir, Last(p)))

is_symlink(p) == IsLink(LinkNode(p))

----------------------------------------------------------------------------
(* find_project_root.py: the nearest directory above $PWD, by its name,    *)
(* that contains "devkit".                                                 *)

ProjectDirs(p) ==
    {q \in {SubSeq(p, 1, n) : n \in 0..Len(p)} : exists(Append(q, Devkit))}

find_project_root(p) == CHOOSE q \in ProjectDirs(p) : \A r \in ProjectDirs(p) : Len(r) <= Len(q)

root == find_project_root(pwd)

----------------------------------------------------------------------------
(* list_external_mounts                                                    *)

(* os.path.normpath: ".." is taken off textually.                          *)
normpath(p) ==
    FoldLeft(LAMBDA acc, n : IF n # Up THEN Append(acc, n)
                             ELSE IF acc = <<>> THEN acc ELSE Front(acc), <<>>, p)

is_relative_to(p, q) == IsPrefix(q, p)

(* os.walk without following links: the links below dir, under the name    *)
(* by which dir was reached.                                               *)
walk(dir) ==
    LET here == resolve(dir)
        Rest(p) == SubSeq(p, Len(here) + 1, Len(p))
        Pruned(p) == \E i \in 1..Len(Rest(p)) :
                        Rest(p)[i] = Venv /\ is_dir(here \o SubSeq(Rest(p), 1, i))
    IN  {dir \o Rest(p) : p \in {p \in Links : /\ IsStrictPrefix(here, p)
                                               /\ ~Pruned(p)
                                               /\ Last(p) \notin Bazel}}

NoChain == [at |-> <<>>, seen |-> {}]

MountsInit ==
    /\ fs \in FileSystems
    /\ pwd \in Pwds
    /\ exists(pwd)
    /\ phase = "start"
    /\ worklist = <<>>
    /\ scanned = {}
    /\ links = {}
    /\ chain = NoChain
    /\ external = {}
    /\ mounts = {}

scan_dir == resolve(root)

list_external_mounts ==
    /\ phase = "start"
    /\ ProjectDirs(pwd) # {}
    /\ phase' = "scan"
    /\ worklist' = <<scan_dir>>
    /\ UNCHANGED <<fs, pwd, scanned, links, chain, external, mounts>>

no_project_root ==
    /\ phase = "start"
    /\ ProjectDirs(pwd) = {}
    /\ phase' = "noroot"
    /\ UNCHANGED <<fs, pwd, worklist, scanned, links, chain, external, mounts>>

(* The next directory of the worklist.                                     *)
scan_next ==
    /\ phase = "scan" /\ chain = NoChain /\ links = {}
    /\ worklist # <<>>
    /\ worklist' = Tail(worklist)
    /\ scanned' = scanned \cup {Head(worklist)}
    /\ links' = IF Head(worklist) \in scanned \/ ~is_dir(Head(worklist)) THEN {}
                ELSE walk(Head(worklist))
    /\ UNCHANGED <<fs, pwd, phase, chain, external, mounts>>

(* _process_symlink starts with one of the links, ...                      *)
process_symlink(p) ==
    /\ chain = NoChain
    /\ p \in links
    /\ links' = links \ {p}
    /\ chain' = [at |-> p, seen |-> {}]
    /\ UNCHANGED <<fs, pwd, phase, worklist, scanned, external, mounts>>

AbsTarget(p) ==
    IF LinkNode(p).relative THEN Front(p) \o LinkNode(p).target ELSE LinkNode(p).target


follow ==
    LET p == chain.at
        target == AbsTarget(p)
        norm == normpath(target) IN
    /\ chain # NoChain
    /\ is_symlink(p) /\ p \notin chain.seen
    /\ exists(target)
    /\ IF is_relative_to(norm, scan_dir) \/ norm \in external
         THEN UNCHANGED <<external, worklist>>
         ELSE /\ external' = external \cup {norm}
              /\ worklist' = IF is_dir(norm) THEN Append(worklist, norm) ELSE worklist
    /\ chain' = [at |-> target, seen |-> chain.seen \cup {p}]
    /\ UNCHANGED <<fs, pwd, phase, scanned, links, mounts>>

(* The chain ends at something that is no link (any more), or in a broken  *)
(* link; a cycle is broken for the operating system, too.                  *)
chain_ends ==
    /\ chain # NoChain
    /\ is_symlink(chain.at) => chain.at \in chain.seen \/ ~exists(AbsTarget(chain.at))
    /\ chain' = NoChain
    /\ UNCHANGED <<fs, pwd, phase, worklist, scanned, links, external, mounts>>

----------------------------------------------------------------------------
(* get_minimal_mounts                                                      *)

(* _minimize_paths visits the paths in order, a path before those below    *)
(* it; whatever lies below a path it has kept is dropped.                  *)
minimize_paths(paths) ==
    {p \in paths : ~\E q \in paths : q # p /\ is_relative_to(p, q)}

get_minimal_mounts ==
    /\ phase = "scan" /\ chain = NoChain /\ links = {} /\ worklist = <<>>
    /\ phase' = "done"
    /\ mounts' = minimize_paths(
                    external \cup Existing \cup {resolve(e) : e \in {e \in Existing : exists(e)}}
                    \cup (IF is_symlink(root) THEN {resolve(root)} ELSE {}))
    /\ UNCHANGED <<fs, pwd, worklist, scanned, links, chain, external>>

(* Somebody deletes a link of the project during the scan.                 *)
Delete(p) ==
    /\ phase = "scan"
    /\ Cardinality({q \in DOMAIN fs : fs[q] = Nothing}) < MaxDeletions
    /\ IsStrictPrefix(scan_dir, p)
    /\ fs' = [fs EXCEPT ![p] = Nothing]
    /\ UNCHANGED <<pwd, phase, worklist, scanned, links, chain, external, mounts>>

MountsNext ==
    \/ list_external_mounts
    \/ no_project_root
    \/ scan_next
    \/ \E p \in links : process_symlink(p)
    \/ follow
    \/ chain_ends
    \/ get_minimal_mounts
    \/ \E p \in Links : Delete(p)

----------------------------------------------------------------------------
(* Properties.                                                             *)

(* What the container sees: the project under its name, and the mounts;    *)
(* docker follows the links in the name of what it mounts.                 *)
docker_mounts == [m \in mounts \cup {root} |-> resolve(m)]
Container == [at |-> fs, table |-> docker_mounts]

(* The paths of a directory's entries; build output and .venv are left to  *)
(* others.                                                                 *)
Names == UNION {ToSet(p) : p \in DOMAIN fs} \ (Bazel \cup {Venv})
Entries(paths) == {q \in {Append(p, n) : p \in paths, n \in Names} : exists(q)}

(* The paths of the project, also through links to elsewhere and back.     *)
ProjectPaths ==
    LET Depth[n \in 0..4] == IF n = 0 THEN {root} ELSE Entries(Depth[n - 1])
    IN  UNION {Depth[n] : n \in 0..4}

(* A target that names a directory only to climb out of it again needs     *)
(* that directory in the container, while normpath has taken its name off  *)
(* (and, where the name is a link, leads elsewhere).                       *)
Detours(l) == \E i, j \in DOMAIN fs[l].target :
                 i < j /\ fs[l].target[i] # Up /\ fs[l].target[j] = Up

(* A mount whose name is a link is a directory in the container: a link in *)
(* it that climbs out by ".." leads elsewhere there than on the host.      *)
Climbs(l) ==
    /\ fs[l].relative
    /\ \E m \in DOMAIN docker_mounts :
          LET dir == docker_mounts[m] IN
          /\ dir # m /\ IsStrictPrefix(dir, l)
          /\ ~is_relative_to(normpath(Front(l) \o fs[l].target), dir)

(* A path is straight when it leads where it does without such links.      *)
Straight(p) ==
    LET without == [q \in DOMAIN fs |->
                       IF q \in Links /\ (Detours(q) \/ Climbs(q)) THEN Nothing ELSE fs[q]]
    IN  Lookup([Host EXCEPT !.at = without], <<>>, p, Hops) # Nowhere

=============================================================================
