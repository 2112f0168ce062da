------------------------------- MODULE Tester -------------------------------
(***************************************************************************)
(* The test runner of tester.c: suites are added and sorted, options say    *)
(* which tests run, and with --parallel each suite runs in a process of its *)
(* own that the parent starts, waits for and counts.  A suite has a number  *)
(* in the order of registration; its files carry this number or its name.   *)
(***************************************************************************)
EXTENDS Integers, Sequences, FiniteSets, SequencesExt

CONSTANTS Suites,       \* by name: average_time, cpu_weight, the tags of each test
          Options,      \* options of the command line: name and value
          MaxOptions,   \* bound: options given
          Thresholds,   \* what max_failed_tests_threshold may be
          Leftover,     \* suites whose .result file an earlier run left
          ExitMax,      \* the greatest exit status, 255
          Block         \* test_suite grows by as many, 10

VARIABLES
    platform, max_failed_tests_threshold,
    test_suite, capacity,   \* the suites added, longest first, and the size of the array
    args, given,    \* what the options say, and the options given
    pc,             \* where the process is
    registered,     \* the suites of the registry: name and numbers of their tests
    loop,           \* the counters of bc_tester_run_parallel
    proc,           \* the process of each suite
    xml,            \* failures in the report of each suite, or None or Partial
    result,         \* the .result file of each suite: none, old, empty or new
    out,            \* what the run leaves: its return value, merged report, log and summary
    faults          \* calls of the system that failed

vars == <<platform, max_failed_tests_threshold, test_suite, capacity, args, given, pc, registered,
          loop, proc, xml, result, out, faults>>

setup == <<platform, max_failed_tests_threshold, test_suite, capacity, args, given, registered>>

None == -1
Partial == -2

NoProcess == [state |-> "none", tests |-> {}, complete |-> FALSE, failed |-> 0, signaled |-> FALSE,
              status |-> 0]

Init ==
    /\ platform \in {"posix", "windows"} /\ max_failed_tests_threshold \in Thresholds
    /\ test_suite = <<>> /\ capacity = Block
    /\ args = [suites |-> <<>>, exclude |-> <<>>, tags |-> <<>>, all |-> FALSE, test |-> 0,
               parallel |-> FALSE, max |-> 0]
    /\ given = {} /\ pc = "setup" /\ registered = <<>>
    /\ loop = [nextSuite |-> 0, running |-> 0, weight |-> 0, finished |-> 0, ret |-> 0, elapsed |-> FALSE]
    /\ proc = <<>> /\ xml = <<>> /\ result = <<>> /\ faults = {}
    /\ out = [ret |-> 0, report |-> <<>>, log |-> <<>>, summary |-> <<>>]

\* The new suite goes before the first that is shorter.
bc_tester_add_suite(s) ==
    LET i == SelectInSeq(test_suite, LAMBDA x : Suites[x].average_time < Suites[s].average_time)
    IN  /\ pc = "setup" /\ given = {} /\ s \notin ToSet(test_suite)
        /\ test_suite' = IF i = 0 THEN Append(test_suite, s) ELSE InsertAt(test_suite, i, s)
        /\ capacity' = IF Len(test_suite') % Block = 0 THEN Len(test_suite') + Block ELSE capacity
        /\ UNCHANGED <<platform, max_failed_tests_threshold, args, given, pc, registered, loop, proc,
                       xml, result, out, faults>>

\* A list of suites, of suites to leave out and of tags is appended to.
bc_tester_parse_args(option) ==
    /\ pc = "setup" /\ DOMAIN Suites = ToSet(test_suite) /\ option \notin given /\ Cardinality(given) < MaxOptions
    /\ given' = given \cup {option}
    /\ IF option.name = "help" THEN out' = [out EXCEPT !.ret = -1] /\ pc' = "done" /\ UNCHANGED args
       ELSE /\ args' = IF option.name \in {"suites", "exclude", "tags"}
                       THEN [args EXCEPT ![option.name] = Append(@, option.value)]
                       ELSE [args EXCEPT ![option.name] = option.value]
            /\ UNCHANGED <<out, pc>>
    /\ UNCHANGED <<platform, max_failed_tests_threshold, test_suite, capacity, registered, loop, proc,
                   xml, result, faults>>

\* The first tag of the test that means something decides: skip, or a tag of
\* the options, of which the first counts.
test_enabled(tags, a) ==
    LET j == SelectInSeq(tags, LAMBDA t : (t = "skip" /\ ~a.all) \/ \E k \in DOMAIN a.tags : a.tags[k].tag = t)
    IN  IF j = 0 THEN a.tags = <<>>
        ELSE ~(tags[j] = "skip" /\ ~a.all) /\ ~a.tags[SelectInSeq(a.tags, LAMBDA g : g.tag = tags[j])].excluded

bc_tester_register_suite(s, a) ==
    [name |-> s, tests |-> {k \in DOMAIN Suites[s].tests : test_enabled(Suites[s].tests[k], a)}]

bc_tester_suite_index(s) == SelectInSeq(test_suite, LAMBDA x : x = s)

\* The suites to run, or those not left out; a suite without a test is not in
\* the registry.
bc_tester_register_suites(a) ==
    LET chosen == IF a.suites # <<>> THEN a.suites ELSE SelectSeq(test_suite, LAMBDA s : s \notin ToSet(a.exclude))
        error == (a.suites # <<>> /\ a.exclude # <<>>) \/ \E s \in ToSet(a.suites) : bc_tester_suite_index(s) = 0
        suites == IF error THEN <<>> ELSE [i \in DOMAIN chosen |-> bc_tester_register_suite(chosen[i], a)]
    IN  [ret |-> IF error THEN -1 ELSE 0, registry |-> SelectSeq(suites, LAMBDA r : r.tests # {})]

\* What the process of a suite is started with: the options of the parent,
\* without its choice of suites.
prepare_child_arguments(s) == [args EXCEPT !.suites = <<s>>, !.exclude = <<>>]

Count == Len(registered)

bc_tester_get_max_parallel_processes == IF args.max = 0 THEN (Len(test_suite) \div 2) + 1 ELSE args.max

test_suite_cpu_weight(i) ==
    LET w == Suites[registered[i].name].cpu_weight
    IN  IF w = 0 \/ w > bc_tester_get_max_parallel_processes THEN 1 ELSE w

\* Without one --suite, --test is refused; --parallel with one suite is what a
\* process started by the parent is given, and runs here.
bc_tester_start ==
    LET one == Len(args.suites) = 1
        r == bc_tester_register_suites(args)
        code == IF args.test # 0 /\ ~one THEN -1 ELSE r.ret
    IN  /\ pc = "setup" /\ DOMAIN Suites = ToSet(test_suite)
        /\ registered' = IF code = 0 THEN r.registry ELSE <<>>
        /\ proc' = [i \in DOMAIN registered' |-> NoProcess]
        /\ xml' = [i \in DOMAIN registered' |-> None]
        /\ result' = [i \in DOMAIN registered' |-> IF registered'[i].name \in Leftover THEN "old" ELSE "none"]
        /\ out' = [out EXCEPT !.ret = code]
        /\ pc' = IF code # 0 THEN "done" ELSE IF ~args.parallel \/ one THEN "here"
                 ELSE IF platform = "windows" /\ registered' = <<>> THEN "done" ELSE "launch"
        /\ UNCHANGED <<platform, max_failed_tests_threshold, test_suite, capacity, args, given, loop, faults>>

\* The exit status of a process is the number of tests that failed.
ExitStatus(failed) == IF failed >= ExitMax THEN ExitMax ELSE failed

\* bc_tester_run_tests in this process; with --parallel it returns what a
\* process of a suite returns.
bc_tester_run_tests ==
    LET tests(i) == {<<i, k>> : k \in registered[i].tests}
        all == UNION {tests(i) : i \in 1..Count}
        wanted == IF args.test = 0 THEN all ELSE {t \in all : t[2] = args.test}
        missing == wanted = {} /\ Len(args.suites) = 1 /\ ~(args.parallel /\ args.test = 0)
    IN  /\ pc = "here"
        /\ IF missing THEN out' = [out EXCEPT !.ret = IF Count = 0 THEN -1 ELSE -2]
           ELSE \E failed \in 0..Cardinality(wanted) :
                out' = [out EXCEPT !.ret = IF args.parallel THEN ExitStatus(failed)
                                           ELSE IF failed > max_failed_tests_threshold THEN 1 ELSE 0]
        /\ pc' = "done"
        /\ UNCHANGED <<setup, loop, proc, xml, result, faults>>

-----------------------------------------------------------------------------
\* The process of a suite.

Started == [NoProcess EXCEPT !.state = "running"]

\* The tests it has, once it has registered its suite.
ChildTests(i) ==
    LET r == bc_tester_register_suites(prepare_child_arguments(registered[i].name)).registry
    IN  IF r = <<>> THEN {} ELSE r[1].tests

\* It registers its suite, runs its tests, writes its files and exits; a check
\* of memory may then end it with the status of -1.
ChildExits(i) ==
    LET tests == ChildTests(i)
    IN  /\ proc[i].state = "running" /\ platform = "posix"
        /\ \E failed \in 0..Cardinality(tests) : \E status \in {ExitStatus(failed), ExitMax} :
              /\ proc' = [proc EXCEPT ![i] = [state |-> "ended", tests |-> tests, complete |-> TRUE,
                                              failed |-> failed, signaled |-> FALSE, status |-> status]]
              /\ xml' = [xml EXCEPT ![i] = failed]
        /\ result' = [result EXCEPT ![i] = "new"]
        /\ UNCHANGED <<setup, pc, loop, out, faults>>

\* A signal ends it in its tests, between the creation of its .result file and
\* the writing, or after, on its way out of main.
ChildCrashes(i) ==
    LET tests == ChildTests(i)
    IN  /\ proc[i].state = "running" /\ platform = "posix"
        /\ \E complete \in BOOLEAN :
              /\ proc' = [proc EXCEPT ![i].state = "ended", ![i].signaled = TRUE, ![i].tests = tests,
                                      ![i].complete = complete]
              /\ IF complete
                 THEN /\ xml' = [xml EXCEPT ![i] = Partial]
                      /\ \E r \in {"empty", "new"} : result' = [result EXCEPT ![i] = r]
                 ELSE /\ \E x \in {None, Partial} : xml' = [xml EXCEPT ![i] = x]
                      /\ UNCHANGED result
        /\ UNCHANGED <<setup, pc, loop, out, faults>>

\* execv fails: the process goes on as its parent would after an error, merges
\* and removes the reports it finds, and exits with -1.
ExecFails(i) ==
    /\ proc[i].state = "running" /\ platform = "posix"
    /\ proc' = [proc EXCEPT ![i].state = "ended", ![i].status = ExitMax]
    /\ xml' = [k \in DOMAIN xml |-> None]
    /\ faults' = faults \cup {"exec"}
    /\ UNCHANGED <<setup, pc, loop, result, out>>

\* For Windows the command line has the name of the program twice: the process
\* takes the second for an option it does not know, and exits with -1.
start_sub_process(i) ==
    /\ proc[i].state = "running" /\ platform = "windows"
    /\ proc' = [proc EXCEPT ![i].state = "ended", ![i].status = ExitMax]
    /\ UNCHANGED <<setup, pc, loop, xml, result, out, faults>>

-----------------------------------------------------------------------------
\* The parent.

merge_junit_xml_files == SelectSeq([i \in 1..Count |-> [suite |-> i, failed |-> xml[i]]], LAMBDA f : f.failed # None)

\* The logs of the processes that got to open one.
merge_log_files == SelectSeq([i \in 1..Count |-> i], LAMBDA i : proc[i].state # "none" /\ proc[i].tests # {})

\* A suite without its .result file is reported as crashed, one whose file is
\* empty is not reported.
merge_and_print_results_files == [i \in 1..Count |-> IF result[i] = "none" THEN "CRASH" ELSE result[i]]

\* The end of bc_tester_run_parallel and of its caller: the summary when there
\* is no error, which removes the .result files, then the merged files.
Finish(ret) ==
    /\ out' = [ret |-> IF ret = -1 THEN -1 ELSE IF ret > max_failed_tests_threshold THEN 1 ELSE 0,
               report |-> merge_junit_xml_files, log |-> merge_log_files,
               summary |-> IF ret = -1 THEN <<>> ELSE merge_and_print_results_files]
    /\ result' = IF ret = -1 THEN result ELSE [i \in DOMAIN result |-> "none"]
    /\ xml' = [i \in DOMAIN xml |-> None]
    /\ pc' = "done"
    /\ UNCHANGED <<setup, proc>>

Fault(call) == faults' = faults \cup {call} /\ Finish(-1) /\ UNCHANGED loop

\* The first half of the loop of bc_tester_run_parallel: fork.
Launch ==
    LET i == loop.nextSuite + 1
        fits == i <= Count /\ loop.weight + test_suite_cpu_weight(i) <= bc_tester_get_max_parallel_processes
    IN  /\ pc = "launch" /\ platform = "posix"
        /\ \/ /\ fits
              /\ proc' = [proc EXCEPT ![i] = Started]
              /\ loop' = [loop EXCEPT !.nextSuite = i, !.running = @ + 1, !.weight = @ + test_suite_cpu_weight(i)]
              /\ pc' = "wait" /\ UNCHANGED <<setup, xml, result, out, faults>>
           \/ ~fits /\ pc' = "wait" /\ UNCHANGED <<setup, loop, proc, xml, result, out, faults>>
           \/ fits /\ Fault("fork")

\* Mutant: a crash is counted like an exit status.
count_status(i) == proc[i].status

\* All tests of the suite are counted, and reported, as failed.
handle_sub_process_error(i) == Cardinality(registered[i].tests)

\* What a process that ended adds to the failures.
Counted(i) ==
    IF proc[i].signaled \/ proc[i].status = ExitMax THEN handle_sub_process_error(i) ELSE proc[i].status

\* Mutant: the weight of the suite is not given back.
reap_without_weight(i) ==
    /\ proc[i].state = "ended"
    /\ proc' = [proc EXCEPT ![i].state = "reaped"]
    /\ xml' = [xml EXCEPT ![i] = IF proc[i].signaled \/ proc[i].status = ExitMax THEN Counted(i) ELSE @]
    /\ loop' = [loop EXCEPT !.running = @ - 1, !.finished = @ + 1, !.ret = @ + Counted(i)]

Reap(i) ==
    /\ proc[i].state = "ended"
    /\ proc' = [proc EXCEPT ![i].state = "reaped"]
    /\ xml' = [xml EXCEPT ![i] = IF proc[i].signaled \/ proc[i].status = ExitMax THEN Counted(i) ELSE @]
    /\ loop' = [loop EXCEPT !.weight = @ - test_suite_cpu_weight(i), !.running = @ - 1,
                            !.finished = @ + 1, !.ret = @ + Counted(i)]

\* The second half: waitpid, which takes a process that ended if there is one,
\* and the time.
Wait ==
    /\ pc = "wait" /\ platform = "posix"
    /\ \/ /\ \/ loop.running > 0 /\ \E i \in 1..Count : Reap(i)
             \/ /\ loop.running = 0 \/ \A i \in 1..Count : proc[i].state # "ended"
                /\ UNCHANGED <<loop, proc, xml>>
          /\ pc' = "clock" /\ UNCHANGED <<setup, result, out, faults>>
       \/ loop.running > 0 /\ Fault("waitpid")

Clock ==
    LET suites == IF platform = "posix" THEN Count ELSE Len(test_suite)
    IN  /\ pc = "clock"
        /\ loop' \in {loop, [loop EXCEPT !.elapsed = TRUE]}
        /\ IF loop.finished < suites
           THEN pc' = "launch" /\ UNCHANGED <<setup, proc, xml, result, out>>
           ELSE Finish(IF loop'.elapsed THEN -1 ELSE loop.ret)
        /\ UNCHANGED faults

\* The loop for Windows: it starts a process or looks at all; what it adds is
\* the code of WaitForSingleObject, 0, and not the exit status.  That the wait
\* itself fails is left out.
RunOnWindows ==
    LET i == loop.nextSuite + 1
        starts == i <= Count /\ loop.running < bc_tester_get_max_parallel_processes
        ended == {k \in 1..Count : proc[k].state = "ended"}
    IN  /\ pc = "launch" /\ platform = "windows"
        /\ \/ /\ starts
              /\ proc' = [proc EXCEPT ![i] = Started]
              /\ loop' = [loop EXCEPT !.nextSuite = i, !.running = @ + 1]
              /\ pc' = "clock" /\ UNCHANGED <<setup, xml, result, out, faults>>
           \/ /\ ~starts
              /\ proc' = [k \in DOMAIN proc |-> IF k \in ended THEN [proc[k] EXCEPT !.state = "reaped"] ELSE proc[k]]
              /\ loop' = [loop EXCEPT !.running = @ - Cardinality(ended), !.finished = @ + Cardinality(ended)]
              /\ pc' = "clock" /\ UNCHANGED <<setup, xml, result, out, faults>>
           \/ starts /\ Fault("CreateProcess")

Parent == Launch \/ Wait \/ Clock \/ RunOnWindows

Child(i) == ChildExits(i) \/ ChildCrashes(i) \/ ExecFails(i) \/ start_sub_process(i)

Next == \/ \E s \in DOMAIN Suites : bc_tester_add_suite(s)
        \/ \E option \in Options : bc_tester_parse_args(option)
        \/ bc_tester_start \/ bc_tester_run_tests
        \/ Parent \/ \E i \in DOMAIN proc : Child(i)

\* The parent runs its loop, and the processes end: as many as there are.
Fairness == WF_vars(Parent) /\ WF_vars(\E i \in DOMAIN proc : Child(i))
=============================================================================
