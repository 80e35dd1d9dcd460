------------------------------- MODULE Culprits -------------------------------
(***************************************************************************)
(* The search for the changes of a candidate that broke its test             *)
(* (src/lib/auto-update/culprits.ts): one test after another, each of the     *)
(* current set with some of the changes.  A test may pass, fail, or give no   *)
(* verdict (no time left, a timeout); the same set may pass and fail.         *)
(***************************************************************************)
EXTENDS Integers, FiniteSets

CONSTANT MaxChanges  \* bound: changes of the candidate

VARIABLES
    changes,  \* the keys that differ, in the order of their tests
    at,       \* the next test: retry, alone, together, without, passed, adding, over
    left,     \* the changes that this loop has still to test
    fine,     \* passed (alone)
    failed,   \* failed (alone)
    set,      \* the set that grows: the changes in it
    result,   \* the Search: culprits, cleared, passing (NoSet for none)
    tests     \* ghost: tests that passed, and how often each change was in a failed one

found == <<fine, failed, set>>
vars == <<changes, at, left, found, result, tests>>

NoSet == {0}
Nothing == [culprits |-> {}, cleared |-> {}, passing |-> NoSet]

\* Before the search, the candidate has failed.
Init ==
    /\ changes \in (SUBSET (1 .. MaxChanges)) \ {{}}
    /\ at = IF Cardinality(changes) = 1 THEN "retry" ELSE "alone"
    /\ left = changes
    /\ fine = {} /\ failed = {} /\ set = {}
    /\ result = Nothing
    /\ tests = [passed |-> {}, fails |-> [c \in changes |-> 1]]

First(S) == CHOOSE c \in S : \A d \in S : c <= d

\* verdictOf: a test of the set with the changes S.
Test(S, verdict) ==
    tests' = CASE verdict = "pass" -> [tests EXCEPT !.passed = @ \cup {S}]
               [] verdict = "fail" -> [tests EXCEPT !.fails = [c \in changes |-> IF c \in S THEN @[c] + 1 ELSE @[c]]]
               [] OTHER -> tests

Returns(culprits, cleared, passing) ==
    /\ at' = "over"
    /\ left' = {}
    /\ result' = [culprits |-> culprits, cleared |-> cleared, passing |-> passing]

Goes(next, todo) == at' = next /\ left' = todo /\ UNCHANGED result

\* Mutant of OneFailed: a failed test is enough for a bad mark.
OneFailedAtOnce(verdict) ==
    IF verdict = "pass" THEN Returns({}, changes, changes) ELSE Returns(changes, {}, NoSet)

OneFailed(verdict) ==
    CASE verdict = "none" -> Returns({}, {}, NoSet)
      [] verdict = "pass" -> Returns({}, changes, changes)
      [] verdict = "fail" -> Returns(changes, {}, NoSet)

\* retryOne
Retry(verdict) ==
    /\ at = "retry"
    /\ Test(changes, verdict)
    /\ OneFailed(verdict)
    /\ UNCHANGED <<changes, found>>

\* 1. Each change alone.
AfterAlone(bad) ==
    IF left # {First(left)} THEN Goes("alone", left \ {First(left)})
    ELSE IF bad = {} THEN Goes("together", {}) ELSE Goes("without", bad)

Alone(verdict) ==
    /\ at = "alone"
    /\ LET c == First(left)
       IN  /\ Test({c}, verdict)
           /\ fine' = IF verdict = "pass" THEN fine \cup {c} ELSE fine
           /\ failed' = IF verdict = "fail" THEN failed \cup {c} ELSE failed
           /\ IF verdict = "none" THEN Returns({}, fine, NoSet) ELSE AfterAlone(failed')
    /\ UNCHANGED <<changes, set>>

\* 2. All passed alone: all of them once more.
Together(verdict) ==
    /\ at = "together"
    /\ Test(changes, verdict)
    /\ CASE verdict = "none" -> Returns({}, fine, NoSet)
         [] verdict = "pass" -> Returns({}, changes, changes)
         [] verdict = "fail" -> Returns(changes, {}, NoSet)
    /\ UNCHANGED <<changes, found>>

\* Mutant of AfterWithout: what passed alone is not tested together.
AfterWithoutUntested == /\ Goes("adding", failed)
                        /\ set' = fine

\* 4. begins with what passed alone: one change, or none, needs no test.
AfterWithout ==
    /\ Goes(IF Cardinality(fine) > 1 THEN "passed" ELSE "adding", failed)
    /\ set' = fine

\* 3. Leave one out of those that failed.
Without(verdict) ==
    /\ at = "without"
    /\ LET c == First(left)
       IN  /\ Test(changes \ {c}, verdict)
           /\ CASE verdict = "none" -> Returns({}, fine, NoSet) /\ UNCHANGED set
                [] verdict = "pass" -> Returns({c}, changes \ {c}, changes \ {c}) /\ UNCHANGED set
                [] verdict = "fail" -> IF left # {c} THEN Goes("without", left \ {c}) /\ UNCHANGED set
                                       ELSE AfterWithout
    /\ UNCHANGED <<changes, fine, failed>>

PassedTogether(verdict) ==
    /\ at = "passed"
    /\ Test(set, verdict)
    /\ CASE verdict = "none" -> Returns({}, fine, NoSet)
         [] verdict = "fail" -> Returns(failed, {}, NoSet)
         [] verdict = "pass" -> Goes("adding", left)
    /\ UNCHANGED <<changes, found>>

Passing(S) == IF S = {} THEN NoSet ELSE S

Judged(c, verdict) == result.culprits \cup (IF verdict = "fail" THEN {c} ELSE {})

\* Adds each failed change back: what makes the set fail is bad.  A test without a
\* verdict ends the search with what is known.
Add(verdict) ==
    /\ at = "adding"
    /\ LET c == First(left)
           grown == IF verdict = "pass" THEN set \cup {c} ELSE set
       IN  /\ Test(set \cup {c}, verdict)
           /\ set' = grown
           /\ IF verdict = "none" \/ left = {c}
                THEN Returns(Judged(c, verdict), grown, Passing(grown))
                ELSE /\ at' = "adding" /\ left' = left \ {c}
                     /\ result' = [result EXCEPT !.culprits = Judged(c, verdict)]
    /\ UNCHANGED <<changes, fine, failed>>

Next ==
    \E verdict \in {"pass", "fail", "none"} :
        \/ Retry(verdict) \/ Alone(verdict) \/ Together(verdict)
        \/ Without(verdict) \/ PassedTogether(verdict) \/ Add(verdict)

Spec == Init /\ [][Next]_vars

------------------------------------------------------------------------------
(* Properties *)

TypeOK ==
    /\ changes \subseteq 1 .. MaxChanges /\ left \subseteq changes
    /\ at \in {"retry", "alone", "together", "without", "passed", "adding", "over"}
    /\ fine \subseteq changes /\ failed \subseteq changes /\ set \subseteq changes
    /\ result.culprits \subseteq changes /\ result.cleared \subseteq changes
    /\ result.passing = NoSet \/ result.passing \subseteq changes

\* culprits.ts: "a bad mark never expires", so one needs two failed tests: no fluke, no
\* missing verdict and no lack of time marks a change.
\* The cycle switches to the set of the search at once, and clears suspects for good: that
\* set passed its test as it is, each cleared change was in a set that passed, and none of
\* them is marked bad.
ResultIsTested ==
    /\ \A c \in result.culprits : tests.fails[c] >= 2
    /\ result.passing # NoSet => result.passing \in tests.passed
    /\ \A c \in result.cleared : \E S \in tests.passed : c \in S
    /\ result.culprits \cap (result.cleared \cup result.passing) = {}
=============================================================================
