------------------------------ MODULE MCTester ------------------------------
(***************************************************************************)
(* The test runner with three suites: one that weighs a process, one that   *)
(* weighs two and has more tests than an exit status can count, and one     *)
(* heavier than all processes together, whose test has two tags.            *)
(***************************************************************************)
EXTENDS Integers, Sequences, FiniteSets, FiniteSetsExt

CONSTANTS MaxOptions, Thresholds, Leftover, ExitMax, Block

VARIABLES platform, max_failed_tests_threshold, test_suite, capacity, args, given, pc, registered,
          loop, proc, xml, result, out, faults

Suites == [s1 |-> [average_time |-> 2, cpu_weight |-> 0, tests |-> <<<<>>, <<"a">>>>],
           s2 |-> [average_time |-> 1, cpu_weight |-> 2, tests |-> <<<<"a", "skip">>, <<"b">>, <<>>>>],
           s3 |-> [average_time |-> 0, cpu_weight |-> 5, tests |-> <<<<"b", "a">>>>]]

Option(name, value) == [name |-> name, value |-> value]

Options == {Option("parallel", TRUE), Option("all", TRUE), Option("test", 2), Option("help", TRUE),
            Option("suites", "s1"), Option("suites", "s2"), Option("suites", "s4"), Option("exclude", "s3"),
            Option("tags", [tag |-> "a", excluded |-> FALSE]), Option("tags", [tag |-> "b", excluded |-> TRUE])}
           \cup {Option("max", n) : n \in {-1, 3}}

INSTANCE Tester

Spec == Init /\ [][Next]_vars /\ Fairness

-----------------------------------------------------------------------------

Sum(f(_), S) == MapThenSumSet(f, S)

Weight(i) == test_suite_cpu_weight(i)

InError(i) == proc[i].signaled \/ proc[i].status = ExitMax

Failures == Sum(LAMBDA i : IF InError(i) THEN Cardinality(registered[i].tests) ELSE proc[i].failed, DOMAIN registered)

\* A parallel run that no failed call has ended.
RunEnded == pc = "done" /\ args.parallel /\ Len(args.suites) # 1 /\ registered # <<>>
            /\ faults \subseteq {"exec"}

\* bc_tester_run_parallel: whatever the order in which processes start, end,
\* crash and are waited for, no more processes run than their weights allow, and
\* in the end each suite of the registry has run, with the tests its parent has
\* selected, and none still runs.  The run is a failure exactly if the tests that
\* failed, all of a suite that ended in error, exceed the threshold, or time was
\* up.  The merged report and log have every suite, in its place, unless a
\* process that could not be started removed reports; the summary shows a suite
\* that ended by itself with its own results, and shows new results only for a
\* suite whose tests were all run.  (A suite that a signal ended is shown as
\* crashed, with the results of an earlier run if a file of it was left, not at
\* all, or, when the signal came after its report, with its own results, though
\* all its tests count as failed.)  Suites are in the order of their times,
\* longest first, and fit in their array.
\* (For Windows no process runs its tests and only the time is counted.)
VerdictCounts ==
    LET now == {i \in DOMAIN proc : proc[i].state \in {"running", "ended"}}
        posix == platform = "posix"
    IN  /\ Len(test_suite) < capacity
        /\ \A i, j \in DOMAIN test_suite : i < j => Suites[test_suite[i]].average_time >= Suites[test_suite[j]].average_time
        /\ posix => loop.weight = Sum(Weight, now)
        /\ args.max >= 0 => (IF posix THEN loop.weight ELSE Cardinality(now)) <= bc_tester_get_max_parallel_processes
        /\ RunEnded =>
              /\ \A i \in DOMAIN proc : proc[i].state = "reaped"
              /\ out.ret = IF loop.elapsed THEN -1 ELSE IF posix /\ Failures > max_failed_tests_threshold THEN 1 ELSE 0
        /\ RunEnded /\ posix =>
              /\ \A i \in DOMAIN proc : ~InError(i) => proc[i].tests = registered[i].tests
              /\ faults = {} =>
                    /\ out.log = [i \in DOMAIN registered |-> i]
                    /\ out.report = [i \in DOMAIN registered |->
                          [suite |-> i, failed |-> IF InError(i) THEN Cardinality(registered[i].tests) ELSE proc[i].failed]]
                    /\ ~loop.elapsed => \A i \in DOMAIN proc :
                          /\ ~proc[i].signaled => out.summary[i] = "new"
                          /\ out.summary[i] = "new" => proc[i].complete

\* bc_tester_run_parallel (l. 1053: "we let all suites finish normally"): a run
\* ends, with processes of any weights, provided that every process ends, that
\* --parallel-max is not negative and that, for Windows, no suite is left out.
RunEnds ==
    (pc = "launch" /\ args.max >= 0 /\ (platform = "posix" \/ Len(registered) = Len(test_suite))) ~> (pc = "done")
=============================================================================
