--------------------------- MODULE MCChangeReview ---------------------------
(* Reviews of small changes: three paths beside the policy file, one        *)
(* dependency, one command, two patterns.                                   *)
EXTENDS ChangeReview

CONSTANTS src, tst, man, pol, g1, g2, dep, cmd, unset, bad, nopath, nopin

MCPaths == {src, tst, man, pol}
MCGlobs == {g1, g2}
MCMatches == [g \in MCGlobs |-> IF g = g1 THEN {src} ELSE {man, pol}]
MCLimits == {1, 3}
MCAbove == [p \in MCPaths |-> {man}]
MCManifestOf == [c \in {cmd} |-> man]

NoTasks == [form |-> "absent", commands |-> {}]
Tasks1(S) == [form |-> "read", commands |-> S]

Plain(path, op) ==
    [path |-> path, old |-> path, op |-> op, unsafe |-> FALSE, applies |-> TRUE,
     manifest |-> path = man, lines |-> 1, secret |-> FALSE, imports |-> {}, declares |-> {},
     adds |-> {}, claims |-> {}, tasks |-> NoTasks]

Code == [Plain(src, "modify") EXCEPT !.imports = {dep}, !.lines = 2, !.secret = TRUE]
Use == [Plain(src, "modify") EXCEPT !.claims = {cmd}]
Declaring == [Plain(man, "modify") EXCEPT !.declares = {dep}, !.adds = {dep},
                                      !.lines = 4, !.tasks = Tasks1({cmd})]
Patch(changes) == [EmptyPatch EXCEPT !.changes = changes]

MCPatches ==
    {Patch(<<Code>>), Patch(<<Use>>), Patch(<<Code, Declaring>>), Patch(<<Declaring>>),
     Patch(<<Plain(pol, "create")>>),
     Patch(<<[Plain(tst, "rename") EXCEPT !.old = src]>>),
     Patch(<<[Plain(src, "modify") EXCEPT !.unsafe = TRUE], Plain(man, "delete")>>),
     [Patch(<<Plain(tst, "modify")>>) EXCEPT !.binary = {tst}]}

WholePacket == [inventory |-> "complete", files |-> {src, man}, included |-> {src, man},
          requires |-> {}, workspace |-> {}, aliases |-> [d \in {dep} |-> {}], aliasable |-> TRUE,
          tasks |-> [p \in {man} |-> Tasks1({})]]

MCPackets ==
    {WholePacket, [WholePacket EXCEPT !.inventory = "failed", !.tasks = [p \in {man} |-> NoTasks]],
     [WholePacket EXCEPT !.tasks = [p \in {man} |-> [form |-> "unparsed", commands |-> {}]],
                   !.requires = {[in |-> man, dep |-> dep, kind |-> "dev", pin |-> nopin]}]}

Says(rules) == [rule \in RuleNames \cup {"unknown"} |->
                   IF rule \in DOMAIN rules THEN rules[rule]
                   ELSE IF rule = "unknown" THEN FALSE ELSE NoRules[rule]]
PackOf(rules) == [form |-> "read", written |-> Says(rules)]
FileOf(rules, ignored) == [form |-> "read", written |-> Says(rules), ignored |-> ignored,
                           unsafe |-> {}, reserved |-> FALSE]

MCRequests ==
    LET ask == [source |-> "patch", refs |-> "both", ci |-> FALSE, init |-> TRUE,
                pack |-> NoPack, mode |-> "optional"]
        packs == {NoPack, PackOf([protected_paths |-> {g1}, max_changed_lines |-> 3]),
                  PackOf([block_secret_patterns |-> TRUE, max_changed_lines |-> Bad])}
    IN {[ask EXCEPT !.pack = k] : k \in packs}
       \cup {[ask EXCEPT !.source = "worktree"], [ask EXCEPT !.source = "range"],
             [ask EXCEPT !.refs = "one"], [ask EXCEPT !.ci = TRUE, !.mode = "required"],
             [ask EXCEPT !.init = FALSE, !.source = "staged"]}

MCCommitted == FileOf([require_tests_for |-> {g1}], {g2})
MCFiles == {MCCommitted, [FileOf(<<>>, {}) EXCEPT !.form = "absent"],
            FileOf([max_changed_lines |-> 1, block_dependency_additions |-> TRUE,
                    protected_paths |-> {g1}], {g1, g2})}

Entry(scope, value) == [scope |-> scope, value |-> value, high |-> FALSE]
MCLedgers == {[readable |-> TRUE, entries |-> {}], [readable |-> FALSE, entries |-> {}],
              [readable |-> TRUE, entries |-> {Entry("path", src), Entry("path", tst),
                                               Entry("path", NoPath), Entry("dependency", dep),
                                               Entry("command", cmd)}]}

MCLinks == {[collisions |-> {}, incomplete |-> {}], [collisions |-> {}, incomplete |-> {src}]}
MCContracts == {{}}
MCExecutions == {{}}
=============================================================================
