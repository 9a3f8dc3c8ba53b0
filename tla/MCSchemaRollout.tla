--------------------------- MODULE MCSchemaRollout ---------------------------
EXTENDS SchemaRollout, TLC

\* What a database of version v holds, one part of it varied at a time.
Base(v) == [Upto(0, v, EmptyContent) EXCEPT !.journal = {"create_workstream"}]

WithRefs(c, v)  == [c EXCEPT !.named = Refs, !.refs = IF v >= 41 THEN Refs ELSE {}]
WithItems(c, v) == [c EXCEPT !.facts = Facts, !.queued = IF v >= 39 THEN Facts ELSE {}]
WithDoc(c, v, s) ==
    [c EXCEPT !.docs = [d \in Docs |-> s],
              !.held = IF v >= 42 /\ s = "active" THEN Docs ELSE {},
              !.indexed = IF v >= 39 THEN Docs ELSE {}]
WithJobs(c, v, b) ==
    [c EXCEPT !.bound = b, !.detached = Jobs, !.wakes = Jobs,
              !.policy = [j \in Jobs |-> IF v >= 45 THEN IF b[j] = "none" THEN "automatic_root"
                                                       ELSE "workstream_only"
                                        ELSE "delivery_only"]]

\* The jobs numbered 1 and 2: both of the task's current execution, one of an
\* earlier one, and one that is bound to no task.
JobBindings == {<<"current", "current">>, <<"earlier", "current">>, <<"none", "earlier">>}

Contains(v) ==
    {WithRefs(Base(v), v)}
    \cup (IF v >= 38 THEN {WithItems(Base(v), v)} ELSE {})
    \cup (IF v \in 38 .. 41
          THEN {WithDoc(Base(v), v, s) : s \in {"imported", "active", "archived", "stale"}} ELSE {})
    \cup (IF v \in 37 .. 46
          THEN {WithJobs(Base(v), v, b) : b \in JobBindings} ELSE {})

MCFound ==
    {NoDatabase}
    \cup UNION {{File(v, c, 0) : c \in Contains(v)} : v \in {33, 38, 41, 46}}
    \cup {File(v, WithRefs(Base(v), v), n) : v \in {33, 47}, n \in {0, 1}}

Symmetry == Permutations(Process)
=============================================================================
