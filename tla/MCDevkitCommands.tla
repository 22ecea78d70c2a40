-------------------------- MODULE MCDevkitCommands -------------------------
(* Instances of DevkitCommands for TLC.                                    *)
EXTENDS DevkitCommands, TLC

File == [kind |-> "file"]
To(path) == [kind |-> "link", relative |-> FALSE, target |-> path]
Relative(path) == [kind |-> "link", relative |-> TRUE, target |-> path]

(* Every file system has the project /r, with a directory d, which is also *)
(* reached as /p, and the directories /x, /y/d and /z/w, also known as /s. *)
Fixed ==
       <<"r">> :> Directory @@ <<"r", "devkit">> :> File @@ <<"r", "d">> :> Directory
    @@ <<"r", "bazel-out">> :> To(<<"y", "d">>)
    @@ <<"r", ".venv">> :> Directory @@ <<"r", ".venv", "v">> :> To(<<"y">>)
    @@ <<"p">> :> To(<<"r">>)
    @@ <<"x">> :> Directory
    @@ <<"y">> :> Directory @@ <<"y", "d">> :> Directory @@ <<"y", "g">> :> File
    @@ <<"z">> :> Directory @@ <<"z", "g">> :> File
    @@ <<"z", "w">> :> Directory @@ <<"z", "w", "k">> :> File @@ <<"s">> :> To(<<"z", "w">>)

(* Four entries differ: two in the project, one in /x, one in /y/d.        *)
Inner == {To(<<"x", "c">>), Relative(<<"..", "x">>), Relative(<<"d", "b">>),
          To(<<"s", "k">>), To(<<"s", "..", "g">>), To(<<"x", "c", "f">>), To(<<"r">>)}
Deeper == {To(<<"x", "..", "y">>), Relative(<<"..", "..", "x", "c">>), To(<<"y", "d">>), Relative(<<"..", "a">>)}
Outer == {File, To(<<"y", "d">>), Relative(<<"..", "y", "g">>), To(<<"r", "d">>)}
Farther == {File, To(<<"x", "c">>), To(<<"p", "a">>)}

(* A project without links is enough for a session.                        *)
Plain == <<"r">> :> Directory @@ <<"r", "devkit">> :> File

(* The entry in /y/d only matters if another one leads to /y or /y/d.      *)
MCFileSystems ==
    {Fixed @@ <<"r", "a">> :> a @@ <<"r", "d", "b">> :> b @@ <<"x", "c">> :> c @@ <<"y", "d", "f">> :> f
        : a \in Inner, b \in {To(<<"x", "..", "y">>), To(<<"y", "d">>)}, c \in Outer, f \in Farther}
    \cup {Fixed @@ <<"r", "a">> :> a @@ <<"r", "d", "b">> :> b @@ <<"x", "c">> :> c @@ <<"y", "d", "f">> :> f
        : a \in Inner, b \in Deeper, c \in {To(<<"y", "d">>)}, f \in Farther}
    \cup {Fixed @@ <<"r", "a">> :> a @@ <<"r", "d", "b">> :> b @@ <<"x", "c">> :> c @@ <<"y", "d", "f">> :> File
        : a \in Inner, b \in Deeper, c \in Outer}
    \cup {Plain}
MCProjects == {<<Plain, <<"r">>>>}

MCPwds == {<<"r">>, <<"p">>, <<"r", "d">>, <<>>}
MCExisting == {<<"s">>}

MCMeasured == {[lf |-> 0, lh |-> 0, brf |-> 0, brh |-> 0], [lf |-> 2, lh |-> 1, brf |-> 0, brh |-> 0],
               [lf |-> 2, lh |-> 2, brf |-> 2, brh |-> 1]}
MCDefaults == {[lines |-> 100, branch |-> 50], [lines |-> 0, branch |-> 101]}
CONSTANTS f1, f2
MCThresholds == {<<>>, f1 :> [lines |-> 50] @@ f2 :> [branch |-> 100]}

MCScopes == {{f1}, {f1, f2}}

(* //a:t and //a:u; //x/a:t, //y/a:t and //y/b:t; //a:b_c, //a_b:c, //a:t, *)
(* //a_t and //a:s/t.                                                      *)
Label(parts, target) == [dirs |-> parts, name |-> target]
PartA == <<"a">>
MCTargetLists ==
    {<<>>, <<Label(<<PartA>>, <<<<"t">>>>), Label(<<PartA>>, <<<<"u">>>>)>>,
     <<Label(<<<<"x">>, PartA>>, <<<<"t">>>>), Label(<<<<"y">>, PartA>>, <<<<"t">>>>),
       Label(<<<<"y">>, <<"b">>>>, <<<<"t">>>>)>>,
     <<Label(<<PartA>>, <<<<"b", "c">>>>), Label(<<<<"a", "b">>>>, <<<<"c">>>>),
       Label(<<PartA>>, <<<<"t">>>>), Label(<<<<"a", "t">>>>, <<>>), Label(<<PartA>>, <<<<"s">>, <<"t">>>>)>>}
=============================================================================
