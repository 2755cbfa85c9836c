--------------------------- MODULE TestCollector ---------------------------
(***************************************************************************)
(* The bridge's own run of a project's tests (evidence/test_collector.py,  *)
(* core/orchestrator.py _verify): the profile is the bridge's, and the     *)
(* verdict is read from what the runner printed and how it exited.         *)
(***************************************************************************)
EXTENDS Naturals, Sequences

VARIABLES
    suite,      \* the suite, as it really went
    receipt     \* the collector's verdict on it

collectorVars == <<suite, receipt>>

(***************************************************************************)
(* The test collector.  A suite finds tests, some are bad, some skipped;   *)
(* its process may quit before or after its summary; a test of it may run  *)
(* a suite of its own, whose summary comes first on the same stream.       *)
(***************************************************************************)
Suites == {s \in [started : BOOLEAN, timed : BOOLEAN, found : 0..2, bad : 0..1,
                  inner : BOOLEAN, quits : {"no", "before", "after"}, code : 0..1,
                  stream : {"stderr", "stdout"}] :
             /\ s.bad <= s.found
             /\ s.inner => s.found > 0
             /\ s.quits = "no" => (s.bad > 0 => s.code = 1) /\ (s.code = 1 => s.bad > 0 \/ s.found = 0)
             /\ s.quits = "after" => s.code = 1}
NoSuite == [started |-> FALSE]

Summary(ran, bad) == [ran |-> ran, bad |-> bad]
Printed(s, stream) ==
    (IF s.inner /\ stream = "stderr" THEN <<Summary(1, 0)>> ELSE <<>>)
    \o (IF s.stream = stream /\ s.quits # "before" THEN <<Summary(s.found, s.bad)>> ELSE <<>>)

\* The first "Ran" line of a stream, and whether any summary on it says FAILED.
Parse(text) == [ran |-> text[1].ran, failed |-> \E i \in DOMAIN text : text[i].bad > 0]

\* Slip: the exit code is not looked at.
SlipClassify(text, code, least) ==
    IF text = <<>> THEN "NOT_EVALUATED"
    ELSE IF Parse(text).ran < least \/ Parse(text).ran = 0 THEN "VACUOUS"
    ELSE IF Parse(text).failed THEN "FAIL" ELSE "PASS"

Classify(text, code, least) ==
    IF text = <<>> THEN "NOT_EVALUATED"
    ELSE IF Parse(text).ran < least \/ Parse(text).ran = 0 THEN "VACUOUS"
    ELSE IF Parse(text).failed \/ code # 0 THEN "FAIL" ELSE "PASS"

Receipt(s) ==
    IF ~s.started \/ s.timed THEN "NOT_EVALUATED"
    ELSE LET err == Printed(s, "stderr")
         IN  Classify(IF err # <<>> THEN err ELSE Printed(s, "stdout"), s.code, 1)

CollectorInit == suite = NoSuite /\ receipt = "none"

\* A verification of a lane, of an attempt or of the integration.
RunProfile ==
    /\ suite' \in Suites
    /\ receipt' = Receipt(suite')

CollectorNext == RunProfile
CollectorSpec == CollectorInit /\ [][CollectorNext]_collectorVars

\* The collector says PASS only of a suite that ran to its end with a test and
\* without a bad one, unless the process of a suite whose own test printed a
\* summary quit early with success (evidence/test_collector.py classify).
PassIsMeasured ==
    receipt = "PASS" =>
      /\ suite.started /\ ~suite.timed /\ suite.found > 0
      /\ \/ suite.quits = "no" /\ suite.bad = 0
         \/ suite.inner /\ suite.quits = "before" /\ suite.code = 0
============================================================================
