-------------------------- MODULE UpdateStoreProofs --------------------------
(***************************************************************************)
(* What MCUpdateStore checks of the parts of the update store, proved for     *)
(* every number of changes, sets, launchers, pids, messages and processes:     *)
(* the search accuses, clears and keeps only what its tests showed (Culprits), *)
(* the collector removes nothing that is named or in use (UpdateStore), a      *)
(* compaction tells the conversation once (CacheCompaction), and no saved      *)
(* change of the settings is lost (SettingsLock).                           *)
(*                                                                         *)
(* Each part has an inductive invariant, a lemma for each of its conjuncts     *)
(* that an action can disturb, and a theorem.                               *)
(***************************************************************************)
EXTENDS MCUpdateStore, UpdateSwitchProofs, Sequences, FiniteSetTheorems, WellFoundedInduction, TLAPS

------------------------------------------------------------------------------
(* The search (Culprits) *)

\* What the variables of the search hold: a change was in one failed test, that of the
\* candidate, before the search.
SearchTypes ==
    /\ changes \subseteq 1 .. MaxChanges
    /\ test \in {"retry", "alone", "together", "without", "passed", "adding", "over"}
    /\ todo \subseteq changes
    /\ fine \subseteq changes /\ failed \subseteq changes /\ grown \subseteq changes
    /\ result \in [culprits : SUBSET changes, cleared : SUBSET changes,
                   passing : (SUBSET changes) \cup {S!NoSet}]
    /\ tests \in [passed : SUBSET SUBSET changes, fails : [changes -> Nat \ {0}]]

\* A change passed alone or failed alone; what a loop has left is one of those it is about.
Sorted ==
    /\ fine \cap failed = {}
    /\ test = "alone" => todo \cap (fine \cup failed) = {}
    /\ test \in {"without", "passed", "adding"} => todo \subseteq failed
    /\ test \notin {"together", "over"} => todo # {}

\* To fail alone is the second failed test of a change.
Tested ==
    /\ \A c \in fine : {c} \in tests.passed
    /\ \A c \in failed : tests.fails[c] >= 2

\* The set that grows has passed as it is, unless it is empty; who failed with it is not in it.
Growing ==
    /\ test = "passed" => grown = fine
    /\ test = "adding" =>
          /\ grown = {} \/ grown \in tests.passed
          /\ grown \cap todo = {}
          /\ result.culprits \subseteq failed \ (grown \cup todo)

\* Nothing is found before the end, except by the last loop.
Unanswered ==
    /\ test # "over" => result.cleared = {} /\ result.passing = S!NoSet
    /\ test \notin {"adding", "over"} => result.culprits = {}

SearchInv == SearchTypes /\ Sorted /\ Tested /\ Growing /\ Unanswered /\ S!ResultIsTested

\* Less-than on the naturals, as the library's relation.
LEMMA LessThan ==
  ASSUME NEW d \in Nat, NEW m \in Nat
  PROVE  <<d, m>> \in OpToRel(<, Nat) <=> d < m
<1>1. OpToRel(<, Nat) = {ss \in Nat \X Nat : ss[1] < ss[2]}  BY DEF OpToRel
<1> QED  BY <1>1

\* The first change of a loop that has some left is one of them.
LEMMA FirstOfThem ==
  ASSUME NEW T \in SUBSET changes, T # {}, changes \subseteq 1 .. MaxChanges
  PROVE  S!First(T) \in T
<1>1. T \subseteq Nat  BY SearchAssumption
<1>2. PICK m \in T : \A d \in T : ~ (<<d, m>> \in OpToRel(<, Nat))
  BY <1>1, WFMin, NatLessThanWellFounded
<1>3. \A d \in T : ~ (d < m)  BY <1>1, <1>2, LessThan
<1>4. \A d \in T : m <= d  BY <1>1, <1>3
<1> QED  BY <1>4, Zenon DEF S!First

\* The instance counts as the library does.
LEMMA SameCardinality == ASSUME NEW T PROVE S!Cardinality(T) = Cardinality(T)
BY Zenon DEF S!Cardinality, Cardinality

\* Not more than one change is no set, or one change (what AfterWithout does not test).
LEMMA FewChanges ==
  ASSUME NEW T \in SUBSET changes, changes \subseteq 1 .. MaxChanges, ~ (S!Cardinality(T) > 1)
  PROVE  T = {} \/ \E c \in T : T = {c}
<1>1. IsFiniteSet(1 .. MaxChanges)  BY SearchAssumption, FS_Interval
<1>2. IsFiniteSet(T)  BY <1>1, FS_Subset
<1>3. Cardinality(T) \in Nat /\ Cardinality(T) <= 1
  <2>1. Cardinality(T) \in Nat  BY <1>2, FS_CardinalityType
  <2> QED  BY <2>1, SameCardinality
<1>4. SUFFICES ASSUME T # {} PROVE \E c \in T : T = {c}  OBVIOUS
<1>5. PICK c \in T : TRUE  BY <1>4
<1>6. Cardinality(T \ {c}) = 0
  <2>1. Cardinality(T) # 0  BY <1>2, <1>4, FS_EmptySet
  <2>2. Cardinality(T \ {c}) = Cardinality(T) - 1  BY <1>2, FS_RemoveElement
  <2> QED  BY <1>3, <2>1, <2>2
<1>7. T \ {c} = {}
  <2>1. IsFiniteSet(T \ {c})  BY <1>2, FS_Subset
  <2> QED  BY <1>6, <2>1, FS_EmptySet
<1> QED  BY <1>7

\* A test keeps what was known, and adds itself.
LEMMA TestAdds ==
  ASSUME SearchTypes, NEW T \in SUBSET changes, NEW verdict, S!Test(T, verdict)
  PROVE  /\ tests.passed \subseteq tests'.passed
         /\ tests' \in [passed : SUBSET SUBSET changes, fails : [changes -> Nat \ {0}]]
         /\ verdict = "pass" => T \in tests'.passed
         /\ \A c \in changes : tests'.fails[c] >= tests.fails[c]
         /\ verdict = "fail" => \A c \in T : tests'.fails[c] >= 2
<1> DEFINE more == [c \in changes |-> IF c \in T THEN tests.fails[c] + 1 ELSE tests.fails[c]]
<1>1. CASE verdict = "pass"
  <2>1. tests' = [tests EXCEPT !.passed = @ \cup {T}]  BY <1>1 DEF S!Test
  <2> QED  BY <1>1, <2>1 DEF SearchTypes
<1>2. CASE verdict = "fail"
  <2>1. tests' = [tests EXCEPT !.fails = more]  BY <1>2 DEF S!Test
  <2> QED  BY <1>2, <2>1 DEF SearchTypes
<1>3. CASE verdict \notin {"pass", "fail"}
  <2>1. tests' = tests  BY <1>3 DEF S!Test
  <2> QED  BY <1>3, <2>1 DEF SearchTypes
<1> QED  BY <1>1, <1>2, <1>3

\* What passed alone stays tested, and what failed alone stays failed twice.
LEMMA TestKeeps ==
  ASSUME SearchInv, NEW T \in SUBSET changes, NEW verdict, S!Test(T, verdict)
  PROVE  /\ \A c \in fine : {c} \in tests'.passed
         /\ \A c \in failed : tests'.fails[c] >= 2
         /\ verdict = "pass" => T \in tests'.passed
         /\ verdict = "fail" => \A c \in T : tests'.fails[c] >= 2
<1>1. \A c \in changes : tests'.fails[c] \in Nat /\ tests.fails[c] \in Nat
  BY TestAdds DEF SearchInv, SearchTypes
<1>2. \A c \in changes : tests'.fails[c] >= tests.fails[c]  BY TestAdds DEF SearchInv
<1>3. failed \subseteq changes  BY DEF SearchInv, SearchTypes
<1>4. \A c \in failed : tests'.fails[c] >= 2  BY <1>1, <1>2, <1>3 DEF SearchInv, Tested
<1>5. \A c \in fine : {c} \in tests'.passed  BY TestAdds DEF SearchInv, Tested
<1> QED  BY <1>4, <1>5, TestAdds DEF SearchInv

\* A return, field by field.
LEMMA ReturnsSets ==
  ASSUME NEW bad, NEW clear, NEW passes, S!Returns(bad, clear, passes)
  PROVE  /\ test' = "over" /\ todo' = {}
         /\ result'.culprits = bad /\ result'.cleared = clear /\ result'.passing = passes
         /\ result' = [culprits |-> bad, cleared |-> clear, passing |-> passes]
BY DEF S!Returns

\* What is returned is sound when the tests before it show it.
LEMMA ReturnsTested ==
  ASSUME SearchInv, NEW T \in SUBSET changes, NEW verdict, S!Test(T, verdict),
         changes' = changes, fine' \subseteq changes, failed' \subseteq changes,
         grown' \subseteq changes,
         fine' \cap failed' = {},
         \A c \in fine' : {c} \in tests'.passed,
         \A c \in failed' : tests'.fails[c] >= 2,
         NEW bad \in SUBSET changes, NEW clear \in SUBSET changes,
         NEW passes \in (SUBSET changes) \cup {S!NoSet},
         S!Returns(bad, clear, passes),
         \A c \in bad : tests'.fails[c] >= 2,
         passes # S!NoSet => passes \in tests'.passed,
         \A c \in clear : \E X \in tests'.passed : c \in X,
         bad \cap (clear \cup passes) = {}
  PROVE  SearchInv'
<1> USE DEF SearchInv
<1>1. /\ test' = "over" /\ todo' = {}
      /\ result'.culprits = bad /\ result'.cleared = clear /\ result'.passing = passes
      /\ result' \in [culprits : SUBSET changes, cleared : SUBSET changes,
                      passing : (SUBSET changes) \cup {S!NoSet}]
  BY ReturnsSets
<1>2. tests' \in [passed : SUBSET SUBSET changes, fails : [changes -> Nat \ {0}]]
  BY TestAdds
<1>3. SearchTypes'  BY <1>1, <1>2 DEF SearchTypes, S!NoSet
<1>4. (Sorted /\ Tested /\ Growing /\ Unanswered)'  BY <1>1 DEF Sorted, Tested, Growing, Unanswered
<1>5. S!ResultIsTested'  BY <1>1 DEF S!ResultIsTested, S!NoSet
<1> QED  BY <1>3, <1>4, <1>5

\* Before the first test nothing is known but the failed test of the candidate.
LEMMA SearchStarts == S!Init => SearchInv
<1> SUFFICES ASSUME S!Init PROVE SearchInv  OBVIOUS
<1> USE DEF S!Init
<1>0. result = [culprits |-> {}, cleared |-> {}, passing |-> S!NoSet]  BY DEF S!Nothing
<1>1. /\ changes \subseteq 1 .. MaxChanges /\ changes # {} /\ todo = changes
      /\ test \in {"retry", "alone"}
  OBVIOUS
<1>2. /\ result.culprits = {} /\ result.cleared = {} /\ result.passing = S!NoSet
      /\ result \in [culprits : SUBSET changes, cleared : SUBSET changes,
                     passing : (SUBSET changes) \cup {S!NoSet}]
  BY <1>0 DEF S!Nothing
<1>3. tests \in [passed : SUBSET SUBSET changes, fails : [changes -> Nat \ {0}]]  OBVIOUS
<1>4. SearchTypes  BY <1>1, <1>2, <1>3 DEF SearchTypes
<1>5. Sorted /\ Tested /\ Growing /\ Unanswered  BY <1>1, <1>2 DEF Sorted, Tested, Growing, Unanswered
<1>6. S!ResultIsTested  BY <1>2 DEF S!ResultIsTested, S!NoSet
<1> QED  BY <1>4, <1>5, <1>6 DEF SearchInv

\* retryOne: the second test of the only change decides.
LEMMA RetryTested ==
  ASSUME SearchInv, NEW verdict \in {"pass", "fail", "none"}, S!Retry(verdict)
  PROVE  SearchInv'
<1> USE DEF SearchInv, S!Retry, S!found
<1>1. fine' = fine /\ failed' = failed /\ grown' = grown /\ changes' = changes  OBVIOUS
<1>2. S!Test(changes, verdict)  OBVIOUS
<1>3. /\ \A c \in fine : {c} \in tests'.passed
      /\ \A c \in failed : tests'.fails[c] >= 2
      /\ verdict = "pass" => changes \in tests'.passed
      /\ verdict = "fail" => \A c \in changes : tests'.fails[c] >= 2
  BY <1>2, TestKeeps
<1>4. /\ fine \cap failed = {} /\ fine \subseteq changes /\ failed \subseteq changes
      /\ grown \subseteq changes
  BY DEF SearchTypes, Sorted
<1>5. CASE verdict = "none"
  <2>1. S!Returns({}, {}, S!NoSet)  BY <1>5 DEF S!OneFailed
  <2>2. {} \cap ({} \cup S!NoSet) = {}  OBVIOUS
  <2> QED  BY <1>1, <1>2, <1>3, <1>4, <2>1, <2>2, ReturnsTested
<1>6. CASE verdict = "pass"
  <2>1. S!Returns({}, changes, changes)  BY <1>6 DEF S!OneFailed
  <2> QED  BY <1>1, <1>2, <1>3, <1>4, <1>6, <2>1, ReturnsTested
<1>7. CASE verdict = "fail"
  <2>1. S!Returns(changes, {}, S!NoSet)  BY <1>7 DEF S!OneFailed
  <2>2. changes \cap ({} \cup S!NoSet) = {}  BY SearchAssumption DEF SearchTypes, S!NoSet
  <2> QED  BY <1>1, <1>2, <1>3, <1>4, <1>7, <2>1, <2>2, ReturnsTested
<1> QED  BY <1>5, <1>6, <1>7

\* All of them once more.
LEMMA TogetherTested ==
  ASSUME SearchInv, NEW verdict \in {"pass", "fail", "none"}, S!Together(verdict)
  PROVE  SearchInv'
<1> USE DEF SearchInv, S!Together, S!found
<1>1. fine' = fine /\ failed' = failed /\ grown' = grown /\ changes' = changes  OBVIOUS
<1>2. S!Test(changes, verdict)  OBVIOUS
<1>3. /\ \A c \in fine : {c} \in tests'.passed
      /\ \A c \in failed : tests'.fails[c] >= 2
      /\ verdict = "pass" => changes \in tests'.passed
      /\ verdict = "fail" => \A c \in changes : tests'.fails[c] >= 2
  BY <1>2, TestKeeps
<1>4. /\ fine \cap failed = {} /\ fine \subseteq changes /\ failed \subseteq changes
      /\ grown \subseteq changes
  BY DEF SearchTypes, Sorted
<1>5. CASE verdict = "none"
  <2>1. S!Returns({}, fine, S!NoSet)  BY <1>5
  <2>2. \A c \in fine : \E X \in tests'.passed : c \in X  BY <1>3
  <2>3. {} \cap (fine \cup S!NoSet) = {}  OBVIOUS
  <2> QED  BY <1>1, <1>2, <1>3, <1>4, <2>1, <2>2, <2>3, ReturnsTested
<1>6. CASE verdict = "pass"
  <2>1. S!Returns({}, changes, changes)  BY <1>6
  <2> QED  BY <1>1, <1>2, <1>3, <1>4, <1>6, <2>1, ReturnsTested
<1>7. CASE verdict = "fail"
  <2>1. S!Returns(changes, {}, S!NoSet)  BY <1>7
  <2>2. changes \cap ({} \cup S!NoSet) = {}  BY SearchAssumption DEF SearchTypes, S!NoSet
  <2> QED  BY <1>1, <1>2, <1>3, <1>4, <1>7, <2>1, <2>2, ReturnsTested
<1> QED  BY <1>5, <1>6, <1>7

\* A test that leaves the search open keeps the invariant when the new loop is in order.
LEMMA GoesOnTested ==
  ASSUME SearchInv, NEW T \in SUBSET changes, NEW verdict, S!Test(T, verdict),
         changes' = changes, fine' \subseteq changes, failed' \subseteq changes,
         grown' \subseteq changes,
         todo' \subseteq changes,
         test' \in {"alone", "together", "without", "passed", "adding"},
         \A c \in fine' : {c} \in tests'.passed,
         \A c \in failed' : tests'.fails[c] >= 2,
         Sorted', Growing', Unanswered',
         result'.culprits \subseteq failed', result'.cleared = {}, result'.passing = S!NoSet,
         result' \in [culprits : SUBSET changes, cleared : SUBSET changes,
                      passing : (SUBSET changes) \cup {S!NoSet}]
  PROVE  SearchInv'
<1> USE DEF SearchInv
<1>1. tests' \in [passed : SUBSET SUBSET changes, fails : [changes -> Nat \ {0}]]
  BY TestAdds
<1>2. SearchTypes'  BY <1>1 DEF SearchTypes, S!NoSet
<1>3. Tested'  BY DEF Tested
<1>4. result'.culprits \cap S!NoSet = {}  BY SearchAssumption DEF SearchTypes, S!NoSet
<1>5. S!ResultIsTested'  BY <1>4 DEF S!ResultIsTested, S!NoSet
<1> QED  BY <1>2, <1>3, <1>5

\* Each change alone.
LEMMA AloneTested ==
  ASSUME SearchInv, NEW verdict \in {"pass", "fail", "none"}, S!Alone(verdict)
  PROVE  SearchInv'
<1> DEFINE c == S!First(todo)
<1> USE DEF SearchInv
<1>1. /\ test = "alone" /\ todo # {} /\ c \in todo
      /\ todo \subseteq changes /\ changes \subseteq 1 .. MaxChanges
      /\ fine \cap failed = {} /\ todo \cap (fine \cup failed) = {}
      /\ fine \subseteq changes /\ failed \subseteq changes /\ grown \subseteq changes
  BY FirstOfThem DEF S!Alone, SearchTypes, Sorted
<1>2. /\ S!Test({c}, verdict) /\ changes' = changes /\ grown' = grown
      /\ fine' = IF verdict = "pass" THEN fine \cup {c} ELSE fine
      /\ failed' = IF verdict = "fail" THEN failed \cup {c} ELSE failed
      /\ IF verdict = "none" THEN S!Returns({}, fine, S!NoSet) ELSE S!AfterAlone(failed')
  BY DEF S!Alone
<1>3. {c} \in SUBSET changes  BY <1>1
<1>4. /\ tests.passed \subseteq tests'.passed
      /\ verdict = "pass" => {c} \in tests'.passed
      /\ \A d \in changes : tests'.fails[d] >= tests.fails[d]
      /\ verdict = "fail" => tests'.fails[c] >= 2
      /\ \A d \in changes : tests'.fails[d] \in Nat /\ tests.fails[d] \in Nat
  BY <1>2, <1>3, TestAdds DEF SearchTypes
<1>5. \A d \in fine' : {d} \in tests'.passed  BY <1>2, <1>4 DEF Tested
<1>6. \A d \in failed' : tests'.fails[d] >= 2  BY <1>1, <1>2, <1>4 DEF Tested
<1>7. fine' \cap failed' = {} /\ fine' \subseteq changes /\ failed' \subseteq changes
  BY <1>1, <1>2
<1>8. CASE verdict = "none"
  <2>1. S!Returns({}, fine, S!NoSet) /\ fine' = fine  BY <1>2, <1>8
  <2>2. \A d \in fine : \E X \in tests'.passed : d \in X  BY <1>5, <2>1
  <2>3. {} \cap (fine \cup S!NoSet) = {}  OBVIOUS
  <2>4. changes' = changes /\ grown' \subseteq changes /\ S!Test({c}, verdict)  BY <1>1, <1>2
  <2> HIDE DEF c
  <2> QED  BY <1>1, <1>3, <1>5, <1>6, <1>7, <2>1, <2>2, <2>3, <2>4, ReturnsTested
<1>9. CASE verdict # "none"
  <2>1. S!AfterAlone(failed')  BY <1>2, <1>9
  <2>2. result' = result /\ result.culprits = {} /\ result.cleared = {} /\ result.passing = S!NoSet
    BY <1>1, <2>1 DEF S!AfterAlone, S!Goes, Unanswered
  <2>3. \/ test' = "alone" /\ todo' = todo \ {c} /\ todo # {c}
        \/ test' = "together" /\ todo' = {}
        \/ test' = "without" /\ todo' = failed' /\ failed' # {}
    BY <2>1 DEF S!AfterAlone, S!Goes
  <2> HIDE DEF c
  <2>4. Sorted'  BY <1>1, <1>2, <1>7, <2>3 DEF Sorted
  <2>5. Growing' /\ Unanswered'  BY <2>2, <2>3 DEF Growing, Unanswered
  <2>6. /\ todo' \subseteq changes
        /\ test' \in {"alone", "together", "without", "passed", "adding"}
    BY <1>1, <1>7, <2>3
  <2>7. result' \in [culprits : SUBSET changes, cleared : SUBSET changes,
                     passing : (SUBSET changes) \cup {S!NoSet}]
    BY <2>2 DEF SearchTypes
  <2>8. S!Test({c}, verdict) /\ changes' = changes /\ grown' \subseteq changes  BY <1>1, <1>2
  <2> QED  BY <1>3, <1>5, <1>6, <1>7, <2>2, <2>4, <2>5, <2>6, <2>7, <2>8, GoesOnTested
<1> QED  BY <1>8, <1>9

\* One of those that failed is left out.
LEMMA WithoutTested ==
  ASSUME SearchInv, NEW verdict \in {"pass", "fail", "none"}, S!Without(verdict)
  PROVE  SearchInv'
<1> DEFINE c == S!First(todo)
<1> USE DEF SearchInv
<1>1. /\ test = "without" /\ todo # {} /\ c \in todo /\ todo \subseteq failed
      /\ changes \subseteq 1 .. MaxChanges
      /\ fine \cap failed = {}
      /\ fine \subseteq changes /\ failed \subseteq changes /\ grown \subseteq changes
  BY FirstOfThem DEF S!Without, SearchTypes, Sorted
<1>2. /\ S!Test(changes \ {c}, verdict)
      /\ changes' = changes /\ fine' = fine /\ failed' = failed
      /\ CASE verdict = "none" -> S!Returns({}, fine, S!NoSet) /\ UNCHANGED grown
           [] verdict = "pass" -> S!Returns({c}, changes \ {c}, changes \ {c}) /\ UNCHANGED grown
           [] verdict = "fail" -> IF todo # {c} THEN S!Goes("without", todo \ {c}) /\ UNCHANGED grown
                                  ELSE S!AfterWithout
  BY DEF S!Without
<1>3. changes \ {c} \in SUBSET changes  OBVIOUS
<1> HIDE DEF c
<1>4. /\ \A d \in fine' : {d} \in tests'.passed
      /\ \A d \in failed' : tests'.fails[d] >= 2
      /\ verdict = "pass" => changes \ {c} \in tests'.passed
  BY <1>2, <1>3, TestKeeps
<1>5. /\ fine' \cap failed' = {} /\ fine' \subseteq changes /\ failed' \subseteq changes
      /\ \A d \in fine : \E X \in tests'.passed : d \in X
  BY <1>1, <1>2, <1>4
<1>6. CASE verdict = "none"
  <2>1. S!Returns({}, fine, S!NoSet) /\ grown' = grown  BY <1>2, <1>6
  <2>2. {} \cap (fine \cup S!NoSet) = {} /\ grown' \subseteq changes  BY <1>1, <2>1
  <2> QED  BY <1>1, <1>2, <1>3, <1>4, <1>5, <2>1, <2>2, ReturnsTested
<1>7. CASE verdict = "pass"
  <2>1. S!Returns({c}, changes \ {c}, changes \ {c}) /\ grown' = grown  BY <1>2, <1>7
  <2>2. /\ {c} \in SUBSET changes /\ changes \ {c} \in (SUBSET changes) \cup {S!NoSet}
        /\ changes \ {c} \in tests'.passed
        /\ \A d \in {c} : tests'.fails[d] >= 2
        /\ grown' \subseteq changes
    BY <1>1, <1>2, <1>4, <1>7, <2>1
  <2>3. {c} \cap ((changes \ {c}) \cup (changes \ {c})) = {}  OBVIOUS
  <2> QED  BY <1>2, <1>3, <1>4, <1>5, <2>1, <2>2, <2>3, ReturnsTested
<1>8. CASE verdict = "fail"
  <2>1. \/ S!Goes("without", todo \ {c}) /\ todo # {c} /\ grown' = grown
        \/ S!AfterWithout /\ todo = {c}
    BY <1>2, <1>8
  <2>2. result' = result /\ result.culprits = {} /\ result.cleared = {} /\ result.passing = S!NoSet
    BY <1>1, <2>1 DEF S!AfterWithout, S!Goes, Unanswered
  <2>3. \/ test' = "without" /\ todo' = todo \ {c} /\ todo # {c} /\ grown' = grown
        \/ test' = "passed" /\ todo' = failed /\ grown' = fine
        \/ test' = "adding" /\ todo' = failed /\ grown' = fine /\ ~ (S!Cardinality(fine) > 1)
    BY <2>1 DEF S!AfterWithout, S!Goes
  <2>4. Sorted'  BY <1>1, <1>2, <2>3 DEF Sorted
  <2>5. test' = "adding" => grown' = {} \/ grown' \in tests'.passed
    <3> SUFFICES ASSUME test' = "adding" PROVE grown' = {} \/ grown' \in tests'.passed  OBVIOUS
    <3>1. grown' = fine /\ ~ (S!Cardinality(fine) > 1)  BY <2>3
    <3>2. fine = {} \/ \E d \in fine : fine = {d}  BY <1>1, <3>1, FewChanges
    <3> QED  BY <1>2, <1>4, <3>1, <3>2
  <2>6. Growing'  BY <1>1, <1>2, <2>2, <2>3, <2>5 DEF Growing
  <2>7. Unanswered'  BY <2>2, <2>3 DEF Unanswered
  <2>8. /\ todo' \subseteq changes /\ grown' \subseteq changes
        /\ test' \in {"alone", "together", "without", "passed", "adding"}
    BY <1>1, <2>3
  <2>9. /\ result'.culprits \subseteq failed'
        /\ result' \in [culprits : SUBSET changes, cleared : SUBSET changes,
                        passing : (SUBSET changes) \cup {S!NoSet}]
    BY <2>2 DEF SearchTypes
  <2> QED  BY <1>2, <1>3, <1>4, <1>5, <2>2, <2>4, <2>6, <2>7, <2>8, <2>9, GoesOnTested
<1> QED  BY <1>6, <1>7, <1>8

\* What passed alone, together.
LEMMA PassedTogetherTested ==
  ASSUME SearchInv, NEW verdict \in {"pass", "fail", "none"}, S!PassedTogether(verdict)
  PROVE  SearchInv'
<1> USE DEF SearchInv
<1>1. /\ test = "passed" /\ todo # {} /\ todo \subseteq failed /\ grown = fine
      /\ fine \cap failed = {}
      /\ fine \subseteq changes /\ failed \subseteq changes /\ grown \subseteq changes
  BY DEF S!PassedTogether, SearchTypes, Sorted, Growing
<1>2. /\ S!Test(grown, verdict)
      /\ changes' = changes /\ fine' = fine /\ failed' = failed /\ grown' = grown
      /\ CASE verdict = "none" -> S!Returns({}, fine, S!NoSet)
           [] verdict = "fail" -> S!Returns(failed, {}, S!NoSet)
           [] verdict = "pass" -> S!Goes("adding", todo)
  BY DEF S!PassedTogether, S!found
<1>3. /\ \A d \in fine' : {d} \in tests'.passed
      /\ \A d \in failed' : tests'.fails[d] >= 2
      /\ verdict = "pass" => grown \in tests'.passed
  BY <1>1, <1>2, TestKeeps
<1>4. /\ fine' \cap failed' = {} /\ fine' \subseteq changes /\ failed' \subseteq changes
      /\ grown' \subseteq changes
      /\ \A d \in fine : \E X \in tests'.passed : d \in X
  BY <1>1, <1>2, <1>3
<1>5. CASE verdict = "none"
  <2>1. S!Returns({}, fine, S!NoSet)  BY <1>2, <1>5
  <2>2. {} \cap (fine \cup S!NoSet) = {}  OBVIOUS
  <2> QED  BY <1>1, <1>2, <1>3, <1>4, <2>1, <2>2, ReturnsTested
<1>6. CASE verdict = "fail"
  <2>1. S!Returns(failed, {}, S!NoSet)  BY <1>2, <1>6
  <2>2. failed \cap ({} \cup S!NoSet) = {}  BY <1>1, SearchAssumption DEF SearchTypes, S!NoSet
  <2>3. \A d \in failed : tests'.fails[d] >= 2  BY <1>2, <1>3
  <2> QED  BY <1>1, <1>2, <1>3, <1>4, <2>1, <2>2, <2>3, ReturnsTested
<1>7. CASE verdict = "pass"
  <2>1. /\ test' = "adding" /\ todo' = todo
        /\ result' = result
        /\ result.culprits = {} /\ result.cleared = {} /\ result.passing = S!NoSet
    BY <1>1, <1>2, <1>7 DEF S!Goes, Unanswered
  <2>2. Sorted'  BY <1>1, <1>2, <2>1 DEF Sorted
  <2>3. Growing'  BY <1>1, <1>2, <1>3, <1>7, <2>1 DEF Growing
  <2>4. Unanswered'  BY <2>1 DEF Unanswered
  <2>5. /\ todo' \subseteq changes
        /\ result'.culprits \subseteq failed'
        /\ result' \in [culprits : SUBSET changes, cleared : SUBSET changes,
                        passing : (SUBSET changes) \cup {S!NoSet}]
    BY <2>1 DEF SearchTypes
  <2> QED  BY <1>1, <1>2, <1>3, <1>4, <2>1, <2>2, <2>3, <2>4, <2>5, GoesOnTested
<1> QED  BY <1>5, <1>6, <1>7

\* A failed change is added back: the set with it passes and grows, or fails and marks it.
LEMMA AddTested ==
  ASSUME SearchInv, NEW verdict \in {"pass", "fail", "none"}, S!Add(verdict)
  PROVE  SearchInv'
<1> DEFINE c == S!First(todo)
           grows == IF verdict = "pass" THEN grown \cup {c} ELSE grown
           bad == S!Judged(c, verdict)
<1> USE DEF SearchInv
<1>1. /\ test = "adding" /\ todo # {} /\ c \in todo /\ todo \subseteq failed
      /\ changes \subseteq 1 .. MaxChanges
      /\ fine \cap failed = {}
      /\ fine \subseteq changes /\ failed \subseteq changes /\ grown \subseteq changes
      /\ grown = {} \/ grown \in tests.passed
      /\ grown \cap todo = {}
      /\ result.culprits \subseteq failed \ (grown \cup todo)
      /\ result.cleared = {} /\ result.passing = S!NoSet
  BY FirstOfThem DEF S!Add, SearchTypes, Sorted, Growing, Unanswered
<1>2. /\ S!Test(grown \cup {c}, verdict)
      /\ changes' = changes /\ fine' = fine /\ failed' = failed /\ grown' = grows
      /\ IF verdict = "none" \/ todo = {c}
           THEN S!Returns(bad, grows, S!Passing(grows))
           ELSE /\ test' = "adding" /\ todo' = todo \ {c}
                /\ result' = [result EXCEPT !.culprits = bad]
  BY DEF S!Add
<1>3. bad = result.culprits \cup (IF verdict = "fail" THEN {c} ELSE {})  BY DEF S!Judged
<1> HIDE DEF c, bad
<1>4. grown \cup {c} \in SUBSET changes  BY <1>1
<1>5. /\ \A d \in fine' : {d} \in tests'.passed
      /\ \A d \in failed' : tests'.fails[d] >= 2
      /\ verdict = "pass" => grown \cup {c} \in tests'.passed
      /\ tests.passed \subseteq tests'.passed
  BY <1>2, <1>4, TestKeeps, TestAdds
<1>6. grows = {} \/ grows \in tests'.passed  BY <1>1, <1>5
<1>7. /\ grows \subseteq changes /\ grows \cap (todo \ {c}) = {}
      /\ bad \subseteq failed \ (grows \cup (todo \ {c}))
  BY <1>1, <1>3
<1> HIDE DEF grows
<1>8. /\ fine' \cap failed' = {} /\ fine' \subseteq changes /\ failed' \subseteq changes
      /\ grown' \subseteq changes
  BY <1>1, <1>2, <1>7
<1>9. CASE verdict = "none" \/ todo = {c}
  <2>1. S!Returns(bad, grows, S!Passing(grows))  BY <1>2, <1>9
  <2>2. /\ bad \in SUBSET changes /\ grows \in SUBSET changes
        /\ S!Passing(grows) \in (SUBSET changes) \cup {S!NoSet}
        /\ \A d \in bad : tests'.fails[d] >= 2
    BY <1>1, <1>2, <1>5, <1>7 DEF S!Passing
  <2>3. /\ S!Passing(grows) # S!NoSet => S!Passing(grows) \in tests'.passed
        /\ \A d \in grows : \E X \in tests'.passed : d \in X
    BY <1>6 DEF S!Passing
  <2>4. bad \cap S!NoSet = {}  BY <1>1, <1>7, SearchAssumption DEF S!NoSet
  <2>5. bad \cap (grows \cup S!Passing(grows)) = {}  BY <1>7, <2>4 DEF S!Passing
  <2> QED  BY <1>2, <1>4, <1>5, <1>8, <2>1, <2>2, <2>3, <2>5, ReturnsTested
<1>10. CASE ~ (verdict = "none" \/ todo = {c})
  <2>1. /\ test' = "adding" /\ todo' = todo \ {c}
        /\ result' = [result EXCEPT !.culprits = bad]
    BY <1>2, <1>10
  <2>2. /\ result' \in [culprits : SUBSET changes, cleared : SUBSET changes,
                        passing : (SUBSET changes) \cup {S!NoSet}]
        /\ result'.culprits = bad /\ result'.cleared = {} /\ result'.passing = S!NoSet
    BY <1>1, <1>7, <2>1 DEF SearchTypes
  <2>3. Sorted'  BY <1>1, <1>2, <1>10, <2>1 DEF Sorted
  <2>4. Growing'  BY <1>2, <1>6, <1>7, <2>1, <2>2 DEF Growing
  <2>5. Unanswered'  BY <2>1, <2>2 DEF Unanswered
  <2>6. todo' \subseteq changes /\ result'.culprits \subseteq failed'  BY <1>1, <1>2, <1>7, <2>1, <2>2
  <2> QED  BY <1>2, <1>4, <1>5, <1>8, <2>1, <2>2, <2>3, <2>4, <2>5, <2>6, GoesOnTested
<1> QED  BY <1>9, <1>10

\* The search keeps its invariant.
LEMMA SearchHolds == S!Spec => []SearchInv
<1>1. ASSUME SearchInv, [S!Next]_S!vars PROVE SearchInv'
  <2>1. CASE S!Next
    <3>1. PICK verdict \in {"pass", "fail", "none"} :
             \/ S!Retry(verdict) \/ S!Alone(verdict) \/ S!Together(verdict)
             \/ S!Without(verdict) \/ S!PassedTogether(verdict) \/ S!Add(verdict)
      BY <2>1 DEF S!Next
    <3> QED  BY <1>1, <3>1, RetryTested, AloneTested, TogetherTested, WithoutTested,
                PassedTogetherTested, AddTested
  <2>2. CASE UNCHANGED S!vars
    BY <1>1, <2>2 DEF SearchInv, SearchTypes, Sorted, Tested, Growing, Unanswered, S!ResultIsTested,
                      S!vars, S!found
  <2> QED  BY <1>1, <2>1, <2>2
<1> QED  BY <1>1, SearchStarts, PTL DEF S!Spec

\* culprits.ts: what the search calls bad was in two failed tests, the set that the cycle
\* switches to has passed as it is and has nothing bad in it, and each cleared change was in
\* a set that passed, whatever the verdicts (the same set may pass and fail) and however
\* many changes there are.
THEOREM ResultIsTestedHolds == S!Spec => []ResultIsTested
<1>1. SearchInv => ResultIsTested  BY DEF SearchInv, ResultIsTested
<1> QED  BY <1>1, SearchHolds, PTL

------------------------------------------------------------------------------
(* The collector (UpdateStore) *)

\* p's Pi counts: it runs, and neither its set left the state before its lease was written
\* nor was its lease removed for that of an earlier launcher.
Counts(p) == C!Running(p) /\ p \notin overtaken \cup robbed

\* What p's Pi loads or has loaded, and its lease is not blind to.
Needed(p) == uses[p] \ missed[p]

\* A record of p's launcher that names the folder f.
InLease(p, f) == f[1] = "pi" /\ noted[PidOf[p]] = <<p, f[2]>>

\* What the link and settings.json name is in the state, and what the state names exists.
NamedSets ==
    /\ piLink \in {now, before} /\ named \in {now, before}
    /\ C!FoldersOf(now) \subseteq folders
    /\ before # None => C!FoldersOf(before) \subseteq folders

\* Two launchers that run have two pids.
OnePid == \A p, q \in Launchers : (C!Running(p) /\ C!Running(q) /\ PidOf[p] = PidOf[q]) => p = q

\* How far a launcher is, and what it uses, has noted and has leased.
Bound(p, x) ==
    /\ uses[p] = {<<"pi", x>>}
    /\ (phase[p] # "looked" /\ Counts(p)) => noted[PidOf[p]] = <<p, x>>

Consistent(p) ==
    /\ phase[p] \notin {"loaded", "up", "gone"} => leases[p] = {}
    /\ phase[p] = "up" => Needed(p) \subseteq leases[p]
    /\ phase[p] \notin {"loaded", "up"} => missed[p] = {}
    /\ phase[p] \in {"none", "again", "gone"} => uses[p] = {}
    /\ phase[p] \in {"looked", "leased", "bare"} => \E x \in Releases : Bound(p, x)

Phases == \A p \in Launchers : Consistent(p)

\* What a Pi uses is in the state, or in a lease, at every time.
Covered ==
    \A p \in Launchers : Counts(p) =>
       \A f \in Needed(p) : f[2] \in {now, before} \/ InLease(p, f) \/ f \in leases[p]

\* The collector keeps the sets of the state.
KeepsSets ==
    step \in {"leases", "removing"} =>
       C!FoldersOf(now) \subseteq keep /\ (before # None => C!FoldersOf(before) \subseteq keep)

\* While it reads the leases, what is used is kept, or named by a lease that it has still to read.
WillKeep ==
    step = "leases" => \A p \in Launchers : Counts(p) =>
       \A f \in Needed(p) :
          \/ f \in keep
          \/ InLease(p, f) /\ PidOf[p] \in names
          \/ f \in leases[p] /\ p \in names

\* When it removes, what is used is kept.
KeepsUses == step = "removing" => \A p \in Launchers : Counts(p) => Needed(p) \subseteq keep

\* What is used exists.
InUse == \A p \in Launchers : Counts(p) => Needed(p) \subseteq folders

StoreInv ==
    /\ C!TypeOK /\ NamedSets /\ OnePid /\ Phases /\ Covered
    /\ KeepsSets /\ WillKeep /\ KeepsUses /\ InUse

\* The variables keep their types.
LEMMA StoreTyped ==
  ASSUME C!TypeOK, [C!Next]_C!vars
  PROVE  C!TypeOK'
<1> USE StoreAssumption DEF C!TypeOK, C!store, C!job, C!runs, C!collector, C!ghosts
<1>1. CASE C!BeginRepair  BY <1>1 DEF C!BeginRepair
<1>2. CASE C!Rollback  BY <1>2 DEF C!Rollback, C!CanRollBack, C!Recorded
<1>3. CASE C!FlipLink  BY <1>3 DEF C!FlipLink
<1>4. CASE C!RewriteSettings  BY <1>4 DEF C!RewriteSettings
<1>5. CASE C!Dies  BY <1>5 DEF C!Dies
<1>6. CASE C!GcCommand  BY <1>6 DEF C!GcCommand
<1>7. CASE C!CollectLists
  BY <1>7 DEF C!CollectLists, C!SetFolders, C!LeaseFiles, C!FoldersOf, C!Folders
<1>8. CASE C!CollectRemoves  BY <1>8 DEF C!CollectRemoves
<1>9. CASE C!CollectEnds  BY <1>9 DEF C!CollectEnds
<1>10. ASSUME NEW s \in Releases, C!Install(s) PROVE C!TypeOK'
  BY <1>10 DEF C!Install, C!MayInstall, C!Recorded, C!FoldersOf, C!Folders
<1>11. ASSUME NEW i \in Pids, C!ReadLauncherLease(i) PROVE C!TypeOK'
  BY <1>11 DEF C!ReadLauncherLease, C!Folders
<1>12. ASSUME NEW i \in Pids, C!RemoveDeadLease(i) PROVE C!TypeOK'
  BY <1>12 DEF C!RemoveDeadLease
<1>13. ASSUME NEW f \in C!Folders, C!RemoveFolder(f) PROVE C!TypeOK'
  BY <1>13 DEF C!RemoveFolder
<1>14. ASSUME NEW p \in Launchers, C!ReadSessionLease(p) PROVE C!TypeOK'
  BY <1>14 DEF C!ReadSessionLease
<1>15. ASSUME NEW p \in Launchers, C!Look(p) PROVE C!TypeOK'
  BY <1>15 DEF C!Look, C!Folders
<1>16. ASSUME NEW p \in Launchers, C!WriteLauncherLease(p) PROVE C!TypeOK'
  BY <1>16 DEF C!WriteLauncherLease, C!Folders
<1>17. ASSUME NEW p \in Launchers, C!Load(p) PROVE C!TypeOK'
  BY <1>17 DEF C!Load, C!Folders
<1>18. ASSUME NEW p \in Launchers, C!SessionStart(p) PROVE C!TypeOK'
  BY <1>18 DEF C!SessionStart, C!History, C!Snapshot, C!Folders
<1>19. ASSUME NEW p \in Launchers, C!Reload(p) PROVE C!TypeOK'
  BY <1>19 DEF C!Reload, C!Folders
<1>20. ASSUME NEW p \in Launchers, C!Ends(p) PROVE C!TypeOK'
  BY <1>20 DEF C!Ends, C!Forgets
<1>21. ASSUME NEW p \in Launchers, C!Killed(p) PROVE C!TypeOK'
  BY <1>21 DEF C!Killed, C!Forgets
<1>22. CASE UNCHANGED C!vars  BY <1>22 DEF C!vars
<1> HIDE DEF C!TypeOK
<1> QED
  BY <1>1, <1>2, <1>3, <1>4, <1>5, <1>6, <1>7, <1>8, <1>9, <1>10, <1>11, <1>12, <1>13, <1>14,
     <1>15, <1>16, <1>17, <1>18, <1>19, <1>20, <1>21, <1>22 DEF C!Next

\* At first no launcher runs, and the set that enable installed exists.
LEMMA StoreStarts == C!Init => StoreInv
<1> SUFFICES ASSUME C!Init PROVE StoreInv  OBVIOUS
<1> USE StoreAssumption DEF C!Init
<1>1. C!TypeOK  BY DEF C!TypeOK, C!FoldersOf, C!Folders
<1>2. NamedSets  BY DEF NamedSets
<1>3. \A p \in Launchers : ~ C!Running(p) /\ uses[p] = {} /\ leases[p] = {} /\ phase[p] = "none" /\ missed[p] = {}
  BY DEF C!Running
<1>4. OnePid /\ Phases /\ Covered /\ InUse
  BY <1>3 DEF OnePid, Phases, Consistent, Covered, InUse, Counts
<1>5. KeepsSets /\ WillKeep /\ KeepsUses  BY DEF KeepsSets, WillKeep, KeepsUses
<1> QED  BY <1>1, <1>2, <1>4, <1>5 DEF StoreInv

\* The holder of the updater lock alone changes what the state, the link and settings.json
\* name: to a new set, or step by step to the one that is current.
LEMMA SetsMove ==
  ASSUME StoreInv, [C!Next]_C!vars
  PROVE  \/ UNCHANGED <<now, before, piLink, named>>
         \/ /\ before' = now /\ piLink = now /\ named = now /\ UNCHANGED <<piLink, named>>
            /\ C!FoldersOf(now') \subseteq folders' /\ folders \subseteq folders'
            /\ step' = "link"
         \/ /\ before' = now /\ now' = before /\ before # None /\ UNCHANGED <<piLink, named, folders>>
            /\ step' = "link"
         \/ piLink' = now /\ UNCHANGED <<now, before, named, folders>> /\ step' = "settings"
         \/ named' = now /\ UNCHANGED <<now, before, piLink, folders>> /\ step' = then
<1> USE DEF C!store, C!job, C!runs, C!collector, C!ghosts
<1>1. CASE C!Rollback  BY <1>1 DEF C!Rollback, C!CanRollBack, C!Recorded
<1>2. CASE C!FlipLink  BY <1>2 DEF C!FlipLink
<1>3. CASE C!RewriteSettings  BY <1>3 DEF C!RewriteSettings
<1>4. ASSUME NEW s \in Releases, C!Install(s)
      PROVE  \/ UNCHANGED <<now, before, piLink, named>>
             \/ /\ before' = now /\ piLink = now /\ named = now /\ UNCHANGED <<piLink, named>>
                /\ C!FoldersOf(now') \subseteq folders' /\ folders \subseteq folders'
                /\ step' = "link"
  BY <1>4 DEF C!Install, C!MayInstall, C!Recorded
<1>5. CASE UNCHANGED <<now, before, piLink, named>>  BY <1>5
<1> QED
  BY <1>1, <1>2, <1>3, <1>4, <1>5
     DEF C!Next, C!vars, C!BeginRepair, C!Dies, C!GcCommand, C!CollectLists, C!CollectRemoves,
         C!CollectEnds, C!ReadLauncherLease, C!RemoveDeadLease, C!RemoveFolder,
         C!ReadSessionLease, C!Look, C!WriteLauncherLease, C!Load, C!SessionStart, C!Reload,
         C!Ends, C!Killed

\* Folders come with an install, and go one by one when the collector has no reason to keep them.
LEMMA FoldersMove ==
  ASSUME C!TypeOK, [C!Next]_C!vars
  PROVE  \/ folders \subseteq folders'
         \/ /\ step = "removing" /\ step' = "removing" /\ keep' = keep
            /\ \E f \in folders \ keep : folders' = folders \ {f}
            /\ UNCHANGED <<now, before, piLink, named, phase, uses, noted, leases, names, overtaken,
                           robbed, missed>>
<1> USE DEF C!store, C!job, C!runs, C!collector, C!ghosts
<1>1. ASSUME NEW f \in C!Folders, C!RemoveFolder(f)
      PROVE  /\ step = "removing" /\ step' = "removing" /\ keep' = keep
             /\ \E g \in folders \ keep : folders' = folders \ {g}
             /\ UNCHANGED <<now, before, piLink, named, phase, uses, noted, leases, names, overtaken,
                            robbed, missed>>
  BY <1>1 DEF C!RemoveFolder
<1>2. ASSUME NEW s \in Releases, C!Install(s) PROVE folders \subseteq folders'
  BY <1>2 DEF C!Install
<1>3. CASE UNCHANGED folders  BY <1>3
<1> QED
  BY <1>1, <1>2, <1>3
     DEF C!Next, C!vars, C!BeginRepair, C!Dies, C!GcCommand, C!CollectLists, C!CollectRemoves,
         C!CollectEnds, C!ReadLauncherLease, C!RemoveDeadLease, C!Rollback, C!FlipLink,
         C!RewriteSettings, C!ReadSessionLease, C!Look, C!WriteLauncherLease, C!Load,
         C!SessionStart, C!Reload, C!Ends, C!Killed

\* A switch goes from a set that exists to one that exists, and the collector keeps both.
LEMMA SetsKept ==
  ASSUME StoreInv, [C!Next]_C!vars
  PROVE  NamedSets'
<1> USE DEF StoreInv
<1>1. CASE folders \subseteq folders'
  <2>1. piLink' \in {now', before'} /\ named' \in {now', before'}  BY SetsMove DEF NamedSets
  <2>2. C!FoldersOf(now') \subseteq folders'  BY <1>1, SetsMove DEF NamedSets
  <2>3. before' # None => C!FoldersOf(before') \subseteq folders'  BY <1>1, SetsMove DEF NamedSets
  <2> QED  BY <2>1, <2>2, <2>3 DEF NamedSets, C!FoldersOf
<1>2. CASE ~ (folders \subseteq folders')
  <2>1. PICK f \in folders \ keep : folders' = folders \ {f}  BY <1>2, FoldersMove
  <2>2. step = "removing" /\ UNCHANGED <<now, before, piLink, named>>  BY <1>2, FoldersMove
  <2>3. C!FoldersOf(now) \subseteq keep /\ (before # None => C!FoldersOf(before) \subseteq keep)
    BY <2>2 DEF KeepsSets
  <2> QED  BY <2>1, <2>2, <2>3 DEF NamedSets, C!FoldersOf
<1> QED  BY <1>1, <1>2

\* A step of a launcher and its Pi: what it loads, notes and leases.
RunStep(p) ==
    \/ C!Look(p) \/ C!WriteLauncherLease(p) \/ C!Load(p) \/ C!SessionStart(p) \/ C!Reload(p)
    \/ C!Ends(p) \/ C!Killed(p)

\* What a Pi has loaded, and how far it is, changes with its own steps alone; its leases go
\* with these and when the collector finds them dead; a set is recorded over what is used.
LEMMA RunsMove ==
  ASSUME [C!Next]_C!vars
  PROVE  \/ \E p \in Launchers : RunStep(p)
         \/ \E p \in Launchers : C!ReadSessionLease(p)
         \/ \E i \in Pids : C!RemoveDeadLease(i)
         \/ /\ UNCHANGED <<phase, uses, noted, leases, robbed, missed>>
            /\ overtaken \subseteq overtaken'
BY DEF RunStep, C!Next, C!vars, C!BeginRepair, C!Dies, C!GcCommand, C!CollectLists,
       C!CollectRemoves, C!CollectEnds, C!ReadLauncherLease, C!RemoveFolder, C!Install,
       C!Recorded, C!Rollback, C!FlipLink, C!RewriteSettings, C!store, C!job, C!runs,
       C!collector, C!ghosts

\* A launcher looks only while no other with its pid runs.
LEMMA OnePidKept ==
  ASSUME StoreInv, [C!Next]_C!vars
  PROVE  OnePid'
<1> USE DEF C!TypeOK, C!Running, OnePid
<1>0. C!TypeOK /\ OnePid  BY DEF StoreInv
<1>1. ASSUME NEW p \in Launchers, C!Look(p) PROVE OnePid'
  BY <1>0, <1>1, StoreAssumption DEF C!Look
<1>2. ASSUME NEW p \in Launchers, RunStep(p), ~ C!Look(p) PROVE OnePid'
  BY <1>0, <1>2 DEF RunStep, C!WriteLauncherLease, C!Load, C!SessionStart, C!Reload, C!Ends,
                    C!Killed, C!PiRuns
<1>3. ASSUME UNCHANGED phase PROVE OnePid'  BY <1>0, <1>3
<1> QED  BY <1>1, <1>2, <1>3, RunsMove DEF C!ReadSessionLease, C!RemoveDeadLease

\* The other launchers with the pid of one that runs do not run, so nobody notes over its lease.
LEMMA PhasesKept ==
  ASSUME StoreInv, [C!Next]_C!vars
  PROVE  Phases'
<1> USE DEF C!TypeOK, C!Running, Counts, Consistent, Bound, Needed
<1>0. C!TypeOK /\ OnePid /\ Phases  BY DEF StoreInv
<1>1. ASSUME NEW p \in Launchers, C!Look(p) PROVE Phases'
  BY <1>0, <1>1, StoreAssumption DEF Phases, C!Look, C!store, C!job, C!collector, C!ghosts
<1>2. ASSUME NEW p \in Launchers, C!WriteLauncherLease(p), NEW q \in Launchers PROVE Consistent(q)'
  <2> USE DEF C!WriteLauncherLease, C!store, C!job, C!collector, C!ghosts
  <2>1. Consistent(p) /\ Consistent(q)  BY <1>0 DEF Phases
  <2>2. CASE q = p
    <3>1. PICK x \in Releases : uses[p] = {<<"pi", x>>}  BY <1>2, <2>1
    <3>2. noted' = [noted EXCEPT ![PidOf[p]] = <<p, x>>]
      <4>1. PICK f \in uses[p] : noted' = [noted EXCEPT ![PidOf[p]] = <<p, f[2]>>]  BY <1>2
      <4>2. f = <<"pi", x>>  BY <3>1
      <4> QED  BY <4>1, <4>2
    <3>3. /\ uses'[p] = {<<"pi", x>>} /\ noted'[PidOf[p]] = <<p, x>>
          /\ leases'[p] = {} /\ phase'[p] = "leased" /\ missed'[p] = {}
      BY <1>0, <1>2, <2>1, <3>1, <3>2, StoreAssumption
    <3> QED  BY <2>2, <3>3
  <2>3. CASE q # p
    <3>1. /\ phase'[q] = phase[q] /\ uses'[q] = uses[q] /\ leases'[q] = leases[q]
          /\ missed'[q] = missed[q]
          /\ Counts(q)' <=> Counts(q)
      BY <1>0, <1>2, <2>3
    <3>2. phase[q] \in {"leased", "bare"} => PidOf[q] # PidOf[p]
      BY <1>0, <1>2, <2>3 DEF OnePid
    <3>3. phase[q] \in {"leased", "bare"} => noted'[PidOf[q]] = noted[PidOf[q]]
      BY <1>0, <1>2, <3>2, StoreAssumption
    <3> QED  BY <2>1, <3>1, <3>3
  <2> QED  BY <2>2, <2>3
<1>3. ASSUME NEW p \in Launchers, C!Load(p) PROVE Phases'
  BY <1>0, <1>3 DEF Phases, C!Load, C!store, C!job, C!collector, C!ghosts
<1>4. ASSUME NEW p \in Launchers, C!SessionStart(p) \/ C!Reload(p), NEW q \in Launchers
      PROVE  Consistent(q)'
  <2> USE DEF C!SessionStart, C!Reload, C!History, C!Snapshot, C!store, C!job, C!collector, C!ghosts
  <2>1. Consistent(q)  BY <1>0 DEF Phases
  <2>2. CASE q = p
    <3>1. \/ phase'[p] = "up" /\ Needed(p)' \subseteq leases'[p]
          \/ phase'[p] = "loaded"
      <4>1. CASE C!SessionStart(p)
        BY <1>0, <4>1 DEF Needed
      <4>2. CASE C!Reload(p)
        BY <1>0, <4>2
      <4> QED  BY <1>4, <4>1, <4>2
    <3> QED  BY <2>2, <3>1
  <2>3. CASE q # p
    <3>1. /\ phase'[q] = phase[q] /\ uses'[q] = uses[q] /\ leases'[q] = leases[q]
          /\ missed'[q] = missed[q]
          /\ noted' = noted /\ overtaken' = overtaken /\ robbed' = robbed
      BY <1>0, <1>4, <2>3
    <3> QED  BY <2>1, <3>1
  <2> QED  BY <2>2, <2>3
<1>5. ASSUME NEW p \in Launchers, C!Ends(p), NEW q \in Launchers PROVE Consistent(q)'
  <2> USE DEF C!Ends, C!Forgets, C!PiRuns, C!store, C!job, C!collector, C!ghosts
  <2>1. Consistent(q)  BY <1>0 DEF Phases
  <2>2. CASE q = p
    <3>1. phase'[p] \in {"gone", "again"} /\ leases'[p] = {} /\ uses'[p] = {} /\ missed'[p] = {}  BY <1>0, <1>5
    <3> QED  BY <2>2, <3>1
  <2>3. CASE q # p
    <3>1. /\ phase'[q] = phase[q] /\ uses'[q] = uses[q] /\ leases'[q] = leases[q]
          /\ missed'[q] = missed[q]
          /\ Counts(q)' <=> Counts(q)
      BY <1>0, <1>5, <2>3
    <3>2. phase[q] \in {"leased", "bare"} => PidOf[q] # PidOf[p]
      BY <1>0, <1>5, <2>3 DEF OnePid
    <3>3. phase[q] \in {"leased", "bare"} => noted'[PidOf[q]] = noted[PidOf[q]]
      BY <1>0, <1>5, <3>2, StoreAssumption
    <3> QED  BY <2>1, <3>1, <3>3
  <2> QED  BY <2>2, <2>3
<1>6. ASSUME NEW p \in Launchers, C!Killed(p) PROVE Phases'
  BY <1>0, <1>6 DEF Phases, C!Killed, C!Forgets, C!store, C!job, C!collector, C!ghosts
<1>7. ASSUME NEW p \in Launchers, C!ReadSessionLease(p) PROVE Phases'
  BY <1>0, <1>7 DEF Phases, C!ReadSessionLease, C!PiRuns, C!store, C!job, C!collector, C!ghosts
<1>8. ASSUME NEW i \in Pids, C!RemoveDeadLease(i) PROVE Phases'
  BY <1>0, <1>8, StoreAssumption DEF Phases, C!RemoveDeadLease, C!store, C!job, C!collector, C!ghosts
<1>9. ASSUME UNCHANGED <<phase, uses, noted, leases, robbed, missed>>, overtaken \subseteq overtaken'
      PROVE  Phases'
  BY <1>0, <1>9 DEF Phases
<1> HIDE DEF Consistent
<1> QED  BY <1>1, <1>2, <1>3, <1>4, <1>5, <1>6, <1>7, <1>8, <1>9, RunsMove DEF RunStep, Phases

\* What a Pi that counts uses after a step, it used before, or it has just loaded it from the
\* link or settings.json.
LEMMA UsesMove ==
  ASSUME StoreInv, [C!Next]_C!vars, NEW q \in Launchers, Counts(q)', NEW f \in Needed(q)'
  PROVE  \/ f \in Needed(q) /\ Counts(q)
         \/ /\ f \in folders /\ f \in C!FoldersOf(piLink) \cup C!FoldersOf(named)
            /\ UNCHANGED <<folders, now, before, piLink, named, step, keep, names>>
<1> USE DEF C!TypeOK, C!Running, Counts, Needed
<1>0. C!TypeOK  BY DEF StoreInv
<1>1. ASSUME NEW p \in Launchers, C!Look(p) \/ C!Load(p) \/ C!Reload(p)
      PROVE  \/ f \in Needed(q) /\ Counts(q)
             \/ /\ f \in folders /\ f \in C!FoldersOf(piLink) \cup C!FoldersOf(named)
                /\ UNCHANGED <<folders, now, before, piLink, named, step, keep, names>>
  <2> USE DEF C!FoldersOf, C!store, C!job, C!collector, C!ghosts
  <2>1. CASE C!Look(p)  BY <1>0, <2>1 DEF C!Look
  <2>2. CASE C!Load(p)  BY <1>0, <2>2 DEF C!Load
  <2>3. CASE C!Reload(p)
    <3>1. CASE q = p
      <4>1. /\ uses'[q] = uses[q] \cup ({<<"pkg", named>>} \cap folders)
            /\ missed'[q] = missed[q] \ {<<"pkg", named>>}
        BY <1>0, <2>3, <3>1 DEF C!Reload
      <4>2. f # <<"pkg", named>> => f \in uses[q] /\ f \notin missed[q]
        BY <4>1
      <4>3. <<"pkg", named>> \in folders
        <5>1. NamedSets /\ named # None  BY <1>0, StoreAssumption DEF StoreInv
        <5> QED  BY <5>1 DEF NamedSets
      <4> QED  BY <1>0, <2>3, <3>1, <4>1, <4>2, <4>3 DEF C!Reload
    <3>2. CASE q # p  BY <1>0, <2>3, <3>2 DEF C!Reload
    <3> QED  BY <3>1, <3>2
  <2> QED  BY <1>1, <2>1, <2>2, <2>3
<1>2. ASSUME NEW p \in Launchers, C!WriteLauncherLease(p) \/ C!SessionStart(p)
      PROVE  f \in Needed(q) /\ Counts(q)
  BY <1>0, <1>2 DEF C!WriteLauncherLease, C!SessionStart, C!ghosts
<1>3. ASSUME NEW p \in Launchers, C!Ends(p) \/ C!Killed(p)
      PROVE  f \in Needed(q) /\ Counts(q)
  BY <1>0, <1>3 DEF C!Ends, C!Killed, C!Forgets
<1>4. ASSUME UNCHANGED <<phase, uses, missed>>, overtaken \subseteq overtaken', robbed \subseteq robbed'
      PROVE  f \in Needed(q) /\ Counts(q)
  BY <1>4
<1>5. ASSUME NEW p \in Launchers, C!ReadSessionLease(p) PROVE f \in Needed(q) /\ Counts(q)
  BY <1>4, <1>5 DEF C!ReadSessionLease, C!ghosts
<1>6. ASSUME NEW i \in Pids, C!RemoveDeadLease(i) PROVE f \in Needed(q) /\ Counts(q)
  BY <1>4, <1>6 DEF C!RemoveDeadLease
<1> QED  BY <1>1, <1>2, <1>3, <1>4, <1>5, <1>6, RunsMove DEF RunStep

\* A lease that names what a Pi goes on to use stays: its own steps keep it, nobody with its
\* pid runs, and the collector does not find it dead.
LEMMA LeaseStays ==
  ASSUME StoreInv, [C!Next]_C!vars, NEW q \in Launchers, Counts(q), Counts(q)',
         NEW f \in Needed(q), f \in Needed(q)'
  PROVE  /\ InLease(q, f) => InLease(q, f)'
         /\ f \in leases[q] => f \in leases'[q]
<1> USE DEF C!TypeOK, C!Running, Counts, InLease, Needed
<1>0. C!TypeOK /\ OnePid /\ Consistent(q)  BY DEF StoreInv, Phases
<1>1. ASSUME NEW p \in Launchers, C!Look(p)
      PROVE  (InLease(q, f) => InLease(q, f)') /\ leases' = leases
  <2>1. q # p  BY <1>0, <1>1 DEF Consistent, C!Look
  <2>2. PidOf[p] # PidOf[q]  BY <1>1, <2>1 DEF C!Look
  <2> QED  BY <1>0, <1>1, <2>2, StoreAssumption DEF C!Look
<1>2. ASSUME NEW p \in Launchers, C!WriteLauncherLease(p)
      PROVE  (InLease(q, f) => InLease(q, f)') /\ leases' = leases
  <2>1. PICK g \in uses[p] : noted' = [noted EXCEPT ![PidOf[p]] = <<p, g[2]>>]
    BY <1>2 DEF C!WriteLauncherLease
  <2>2. CASE p = q
    <3>1. f = g  BY <1>0, <1>2, <2>1, <2>2 DEF Consistent, Bound, C!WriteLauncherLease
    <3>2. noted'[PidOf[q]] = <<q, f[2]>>  BY <1>0, <2>1, <2>2, <3>1, StoreAssumption
    <3> QED  BY <1>2, <3>2 DEF C!WriteLauncherLease
  <2>3. CASE p # q
    <3>1. PidOf[p] # PidOf[q]  BY <1>0, <1>2, <2>3 DEF OnePid, C!WriteLauncherLease
    <3>2. noted'[PidOf[q]] = noted[PidOf[q]]  BY <1>0, <2>1, <3>1, StoreAssumption
    <3> QED  BY <1>2, <3>2 DEF C!WriteLauncherLease
  <2> QED  BY <2>2, <2>3
<1>3. ASSUME NEW p \in Launchers, C!Load(p) \/ C!Reload(p) \/ C!Killed(p)
      PROVE  noted' = noted /\ leases' = leases
  BY <1>3 DEF C!Load, C!Reload, C!Killed
<1>4. ASSUME NEW p \in Launchers, C!SessionStart(p)
      PROVE  noted' = noted /\ (f \in leases[q] => f \in leases'[q])
  BY <1>0, <1>4 DEF C!SessionStart, C!History, C!Snapshot
<1>5. ASSUME NEW p \in Launchers, C!Ends(p)
      PROVE  (InLease(q, f) => InLease(q, f)') /\ leases'[q] = leases[q]
  <2>1. p # q  BY <1>0, <1>5 DEF C!Ends, C!Forgets
  <2>2. PidOf[p] # PidOf[q]  BY <1>0, <1>5, <2>1 DEF OnePid, C!Ends, C!PiRuns
  <2>3. noted'[PidOf[q]] = noted[PidOf[q]]
    <3>1. noted' = noted \/ noted' = [noted EXCEPT ![PidOf[p]] = None]  BY <1>5 DEF C!Ends
    <3> QED  BY <1>0, <2>2, <3>1, StoreAssumption
  <2> QED  BY <1>0, <1>5, <2>1, <2>3 DEF C!Ends
<1>6. ASSUME NEW p \in Launchers, C!ReadSessionLease(p)
      PROVE  noted' = noted /\ (f \in leases[q] => f \in leases'[q])
  BY <1>0, <1>6 DEF C!ReadSessionLease, Consistent, C!PiRuns
<1>7. ASSUME NEW i \in Pids, C!RemoveDeadLease(i)
      PROVE  (InLease(q, f) => InLease(q, f)') /\ leases' = leases
  <2>1. noted' = [noted EXCEPT ![i] = None] /\ leases' = leases  BY <1>7 DEF C!RemoveDeadLease
  <2>2. noted[i] # None /\ noted[i][1] = q => q \in robbed'  BY <1>7 DEF C!RemoveDeadLease
  <2>3. f[2] \in Releases  BY <1>0 DEF C!Folders
  <2>4. <<q, f[2]>> # None /\ <<q, f[2]>>[1] = q  BY <2>3, StoreAssumption
  <2>5. InLease(q, f) => PidOf[q] # i  BY <2>2, <2>4
  <2> QED  BY <1>0, <2>1, <2>5, StoreAssumption
<1>8. ASSUME UNCHANGED <<noted, leases>>
      PROVE  /\ InLease(q, f) => InLease(q, f)'
             /\ f \in leases[q] => f \in leases'[q]
  BY <1>8
<1> QED  BY <1>1, <1>2, <1>3, <1>4, <1>5, <1>6, <1>7, <1>8, RunsMove DEF RunStep

\* A set that leaves the state was in use by the lease, or the launcher is overtaken.
LEMMA RecordedCovers ==
  ASSUME StoreInv, [C!Next]_C!vars, UNCHANGED piLink, <<now, before>>' # <<now, before>>,
         NEW q \in Launchers, Counts(q)', NEW f \in Needed(q)', f[2] \notin {now', before'}
  PROVE  f \in Needed(q) /\ Counts(q) /\ (InLease(q, f) \/ f \in leases[q])
<1>0. C!TypeOK /\ Consistent(q) /\ Covered  BY DEF StoreInv, Phases
<1>1. f \in Needed(q) /\ Counts(q)  BY UsesMove
<1>2. CASE f[2] \notin {now, before}  BY <1>0, <1>1, <1>2 DEF Covered
<1>3. CASE f[2] \in {now, before}
  <2>1. f[2] = before /\ now' # before
    BY <1>3, SetsMove
  <2>2. \E s \in Releases : C!Install(s) /\ C!Recorded(s)
    <3>1. ASSUME C!Rollback PROVE now' = before  BY <3>1 DEF C!Rollback, C!Recorded
    <3> QED
      BY <2>1, <3>1
         DEF C!Next, C!vars, C!store, C!job, C!runs, C!collector, C!ghosts, C!BeginRepair, C!Dies,
             C!GcCommand, C!CollectLists, C!CollectRemoves, C!CollectEnds, C!ReadLauncherLease,
             C!RemoveDeadLease, C!RemoveFolder, C!FlipLink, C!RewriteSettings, C!Install,
             C!ReadSessionLease, C!Look, C!WriteLauncherLease, C!Load, C!SessionStart, C!Reload,
             C!Ends, C!Killed
  <2>3. PICK s \in Releases : C!Install(s) /\ C!Recorded(s)  BY <2>2
  <2>4. /\ now' = s /\ before' = now /\ UNCHANGED <<phase, uses, missed>>
        /\ (phase[q] \in {"looked", "loaded"} /\ f \notin leases[q]) => q \in overtaken'
    BY <1>1, <2>3 DEF C!Install, C!Recorded, C!runs, Needed
  <2>5. phase[q] \in {"looked", "loaded"} => f \in leases[q]  BY <2>4 DEF Counts
  <2>6. phase[q] \in {"leased", "bare"} => InLease(q, f)
    BY <1>0, <1>1 DEF Consistent, Bound, InLease, Needed
  <2>7. phase[q] = "up" => f \in leases[q]  BY <1>0, <1>1 DEF Consistent
  <2>8. phase[q] \in {"looked", "leased", "loaded", "up", "bare"}
    BY <1>0, <1>1 DEF Consistent, C!TypeOK, Needed
  <2> QED  BY <1>1, <2>5, <2>6, <2>7, <2>8
<1> QED  BY <1>2, <1>3

\* A lease goes on to cover what it covered, and a set that leaves the state was covered by one.
LEMMA CoveredKept ==
  ASSUME StoreInv, [C!Next]_C!vars
  PROVE  Covered'
<1> SUFFICES ASSUME NEW q \in Launchers, Counts(q)', NEW f \in Needed(q)', f[2] \notin {now', before'}
             PROVE  InLease(q, f)' \/ f \in leases'[q]
  BY DEF Covered
<1>0. NamedSets /\ Covered  BY DEF StoreInv
<1>1. f \in Needed(q) /\ Counts(q) /\ (InLease(q, f) \/ f \in leases[q])
  <2>1. CASE UNCHANGED <<now, before>>
    <3>1. f \notin C!FoldersOf(piLink) \cup C!FoldersOf(named)
      BY <1>0, <2>1 DEF NamedSets, C!FoldersOf
    <3>2. f \in Needed(q) /\ Counts(q)  BY <3>1, UsesMove
    <3> QED  BY <1>0, <2>1, <3>2 DEF Covered
  <2>2. CASE <<now, before>>' # <<now, before>>
    <3>1. UNCHANGED piLink  BY <2>2, SetsMove
    <3> QED  BY <2>2, <3>1, RecordedCovers
  <2> QED  BY <2>1, <2>2
<1> QED  BY <1>1, LeaseStays

\* The collector goes from its readdir over the leases to the folders; what it has found a
\* reason for it keeps, and no set changes meanwhile.
LEMMA CollectorMoves ==
  ASSUME C!TypeOK, [C!Next]_C!vars, step' \in {"leases", "removing"}
  PROVE  \/ C!CollectLists
         \/ C!CollectRemoves
         \/ step' = step /\ keep \subseteq keep' /\ UNCHANGED <<now, before, piLink, named>>
<1> USE DEF C!TypeOK, C!store, C!job, C!runs, C!collector, C!ghosts
<1>1. CASE C!RewriteSettings  BY <1>1 DEF C!RewriteSettings
<1>2. CASE C!Rollback  BY <1>2 DEF C!Rollback, C!Recorded
<1>3. ASSUME NEW s \in Releases, C!Install(s) PROVE FALSE  BY <1>3 DEF C!Install, C!Recorded
<1>4. ASSUME NEW i \in Pids, C!ReadLauncherLease(i) \/ C!RemoveDeadLease(i)
      PROVE  step' = step /\ keep \subseteq keep' /\ UNCHANGED <<now, before, piLink, named>>
  BY <1>4 DEF C!ReadLauncherLease, C!RemoveDeadLease
<1>5. ASSUME NEW p \in Launchers, C!ReadSessionLease(p) \/ RunStep(p)
      PROVE  step' = step /\ keep \subseteq keep' /\ UNCHANGED <<now, before, piLink, named>>
  BY <1>5 DEF C!ReadSessionLease, RunStep, C!Look, C!WriteLauncherLease, C!Load, C!SessionStart,
              C!Reload, C!Ends, C!Killed
<1>6. ASSUME NEW f \in C!Folders, C!RemoveFolder(f)
      PROVE  step' = step /\ keep \subseteq keep' /\ UNCHANGED <<now, before, piLink, named>>
  BY <1>6 DEF C!RemoveFolder
<1>7. CASE UNCHANGED C!vars  BY <1>7 DEF C!vars
<1> QED
  BY <1>1, <1>2, <1>3, <1>4, <1>5, <1>6, <1>7
     DEF RunStep, C!Next, C!BeginRepair, C!Dies, C!GcCommand, C!CollectEnds, C!FlipLink

\* No set changes while the collector is at work.
LEMMA KeepsSetsKept ==
  ASSUME StoreInv, [C!Next]_C!vars
  PROVE  KeepsSets'
<1>0. C!TypeOK /\ KeepsSets  BY DEF StoreInv
<1> SUFFICES ASSUME step' \in {"leases", "removing"}
             PROVE  (/\ C!FoldersOf(now) \subseteq keep
                     /\ before # None => C!FoldersOf(before) \subseteq keep)'
  BY DEF KeepsSets
<1>1. CASE C!CollectLists  BY <1>1 DEF C!CollectLists, C!SetFolders, C!store, C!FoldersOf
<1>2. CASE C!CollectRemoves
  BY <1>0, <1>2 DEF KeepsSets, C!CollectRemoves, C!store, C!collector, C!FoldersOf
<1>3. CASE step' = step /\ keep \subseteq keep' /\ UNCHANGED <<now, before, piLink, named>>
  BY <1>0, <1>3 DEF KeepsSets, C!FoldersOf
<1> QED  BY <1>0, <1>1, <1>2, <1>3, CollectorMoves

\* A lease that has been read is kept in mind.
LEMMA NamesMove ==
  ASSUME StoreInv, [C!Next]_C!vars, step = "leases", step' = "leases",
         NEW q \in Launchers, Counts(q), NEW f \in Needed(q)
  PROVE  /\ InLease(q, f) /\ PidOf[q] \in names => f \in keep' \/ PidOf[q] \in names'
         /\ f \in leases[q] /\ q \in names => f \in keep' \/ q \in names'
<1> USE DEF C!TypeOK, C!store, C!job, C!runs, C!collector, C!ghosts
<1>0. C!TypeOK /\ Consistent(q) /\ PidOf[q] \notin Launchers /\ q \notin Pids
  BY StoreAssumption DEF StoreInv, Phases
<1>1. ASSUME NEW i \in Pids, C!ReadLauncherLease(i)
      PROVE  /\ InLease(q, f) /\ PidOf[q] \in names => f \in keep' \/ PidOf[q] \in names'
             /\ q \in names => q \in names'
  <2>1. names' = names \ {i}  BY <1>1 DEF C!ReadLauncherLease
  <2>2. ASSUME InLease(q, f), PidOf[q] = i PROVE f \in keep'
    <3>1. f \in C!Folders /\ f = <<"pi", f[2]>> /\ f[2] \in Releases
      BY <1>0, <2>2 DEF C!Folders, InLease, Needed
    <3>2. noted[i] = <<q, f[2]>> /\ noted[i] # None /\ C!Running(noted[i][1])
      BY <2>2, <3>1, StoreAssumption DEF InLease, Counts
    <3> QED  BY <1>1, <3>1, <3>2 DEF C!ReadLauncherLease
  <2> QED  BY <1>0, <2>1, <2>2
<1>2. ASSUME NEW p \in Launchers, C!ReadSessionLease(p)
      PROVE  /\ PidOf[q] \in names => PidOf[q] \in names'
             /\ f \in leases[q] /\ q \in names => f \in keep' \/ q \in names'
  <2>1. names' = names \ {p}  BY <1>2 DEF C!ReadSessionLease
  <2>2. ASSUME f \in leases[q], p = q PROVE f \in keep'
    <3>1. C!PiRuns(q)  BY <1>0, <2>2 DEF Consistent, Counts, C!Running, C!PiRuns
    <3> QED  BY <1>2, <2>2, <3>1 DEF C!ReadSessionLease
  <2> QED  BY <1>0, <2>1, <2>2
<1>3. CASE names' = names  BY <1>3
<1> QED
  BY <1>1, <1>2, <1>3
     DEF C!Next, C!vars, C!BeginRepair, C!Dies, C!GcCommand, C!CollectLists, C!CollectRemoves,
         C!CollectEnds, C!RemoveDeadLease, C!RemoveFolder, C!Install, C!Rollback, C!FlipLink,
         C!RewriteSettings, C!Look, C!WriteLauncherLease, C!Load, C!SessionStart, C!Reload,
         C!Ends, C!Killed

\* What a Pi loads while the collector is at work is of a set that the collector keeps.
LEMMA LoadsKept ==
  ASSUME StoreInv, step \in {"leases", "removing"},
         NEW f \in C!FoldersOf(piLink) \cup C!FoldersOf(named)
  PROVE  f \in keep
<1>1. C!TypeOK /\ NamedSets /\ KeepsSets  BY DEF StoreInv
<1>2. now # None /\ piLink # None /\ named # None  BY <1>1, StoreAssumption DEF C!TypeOK
<1> QED  BY <1>1, <1>2 DEF NamedSets, KeepsSets, C!FoldersOf

\* From the readdir on, what is used is kept or in a lease that is still to be read.
LEMMA WillKeepKept ==
  ASSUME StoreInv, [C!Next]_C!vars
  PROVE  WillKeep'
<1> SUFFICES ASSUME step' = "leases", NEW q \in Launchers, Counts(q)', NEW f \in Needed(q)'
             PROVE  \/ f \in keep'
                    \/ InLease(q, f)' /\ PidOf[q] \in names'
                    \/ f \in leases'[q] /\ q \in names'
  BY DEF WillKeep
<1>0. C!TypeOK /\ WillKeep /\ Covered /\ KeepsSets  BY DEF StoreInv
<1>1. CASE C!CollectLists
  <2>1. /\ f \in Needed(q) /\ Counts(q) /\ names' = C!LeaseFiles /\ keep' = C!SetFolders
        /\ UNCHANGED <<now, before, noted, leases>>
    BY <1>1 DEF C!CollectLists, C!store, C!runs, C!ghosts, Counts, C!Running, Needed
  <2>2. f \in C!Folders /\ f[2] \in Releases /\ f \in C!FoldersOf(f[2])
    BY <1>0, <2>1 DEF C!TypeOK, C!Folders, C!FoldersOf, Needed
  <2>3. CASE f[2] \in {now, before}
    <3>1. f[2] # None  BY <2>2, StoreAssumption
    <3> QED  BY <2>1, <2>2, <2>3, <3>1 DEF C!SetFolders
  <2>4. CASE InLease(q, f)
    <3>1. noted[PidOf[q]] # None  BY <2>2, <2>4, StoreAssumption DEF InLease
    <3>2. PidOf[q] \in C!LeaseFiles  BY <3>1, StoreAssumption DEF C!LeaseFiles
    <3> QED  BY <2>1, <2>4, <3>2 DEF InLease
  <2>5. CASE f \in leases[q]  BY <2>1, <2>5 DEF C!LeaseFiles
  <2> QED  BY <1>0, <2>1, <2>3, <2>4, <2>5 DEF Covered
<1>2. CASE step = "leases" /\ keep \subseteq keep'
  <2>1. CASE f \in Needed(q) /\ Counts(q)
    <3>1. \/ f \in keep
          \/ InLease(q, f) /\ PidOf[q] \in names
          \/ f \in leases[q] /\ q \in names
      BY <1>0, <1>2, <2>1 DEF WillKeep
    <3> QED  BY <1>2, <2>1, <3>1, NamesMove, LeaseStays
  <2>2. CASE f \in C!FoldersOf(piLink) \cup C!FoldersOf(named)
    BY <1>2, <2>2, LoadsKept
  <2> QED  BY <2>1, <2>2, UsesMove
<1>3. ~ C!CollectRemoves  BY DEF C!CollectRemoves
<1> QED  BY <1>0, <1>1, <1>2, <1>3, CollectorMoves

\* When every lease is read, nothing that is used depends on one.
LEMMA KeepsUsesKept ==
  ASSUME StoreInv, [C!Next]_C!vars
  PROVE  KeepsUses'
<1> SUFFICES ASSUME step' = "removing", NEW q \in Launchers, Counts(q)', NEW f \in Needed(q)'
             PROVE  f \in keep'
  BY DEF KeepsUses
<1>0. C!TypeOK /\ WillKeep /\ KeepsUses  BY DEF StoreInv
<1>1. CASE C!CollectRemoves
  <2>1. step = "leases" /\ names = {} /\ keep' = keep /\ f \in Needed(q) /\ Counts(q)
    BY <1>1 DEF C!CollectRemoves, C!runs, C!collector, C!ghosts, Counts, C!Running, Needed
  <2> QED  BY <1>0, <2>1 DEF WillKeep
<1>2. CASE step = "removing" /\ keep \subseteq keep'
  <2>1. CASE f \in Needed(q) /\ Counts(q)  BY <1>0, <1>2, <2>1 DEF KeepsUses
  <2>2. CASE f \in C!FoldersOf(piLink) \cup C!FoldersOf(named)  BY <1>2, <2>2, LoadsKept
  <2> QED  BY <2>1, <2>2, UsesMove
<1>3. ~ C!CollectLists  BY DEF C!CollectLists
<1> QED  BY <1>0, <1>1, <1>2, <1>3, CollectorMoves

\* So what is removed is used by no Pi.
LEMMA InUseKept ==
  ASSUME StoreInv, [C!Next]_C!vars
  PROVE  InUse'
<1> SUFFICES ASSUME NEW q \in Launchers, Counts(q)', NEW f \in Needed(q)' PROVE f \in folders'
  BY DEF InUse
<1>0. C!TypeOK /\ InUse /\ KeepsUses  BY DEF StoreInv
<1>1. CASE folders \subseteq folders'
  BY <1>0, <1>1, UsesMove DEF InUse
<1>2. CASE ~ (folders \subseteq folders')
  <2>1. PICK g \in folders \ keep : folders' = folders \ {g}  BY <1>0, <1>2, FoldersMove
  <2>2. step = "removing" /\ f \in Needed(q) /\ Counts(q)
    BY <1>0, <1>2, FoldersMove DEF Counts, C!Running, Needed
  <2>3. f \in keep /\ f \in folders  BY <1>0, <2>2 DEF KeepsUses, InUse
  <2> QED  BY <2>1, <2>3
<1> QED  BY <1>1, <1>2

\* The store keeps its invariant.
LEMMA StoreHolds == C!Spec => []StoreInv
<1>1. ASSUME StoreInv, [C!Next]_C!vars PROVE StoreInv'
  BY <1>1, StoreTyped, SetsKept, OnePidKept, PhasesKept, CoveredKept, KeepsSetsKept, WillKeepKept,
     KeepsUsesKept, InUseKept DEF StoreInv
<1> QED  BY <1>1, StoreStarts, PTL DEF C!Spec

\* gc.ts: "GC never removes a folder a process may still load from", for every number of sets
\* and launchers, whatever pids they share and wherever a cycle, a launcher or a Pi is
\* killed; and what the link and settings.json name exists at every time.
THEOREM NeededStaysHolds == C!Spec => []NeededStays
<1>1. ASSUME StoreInv PROVE NeededStays
  <2>1. \A p \in Launchers \ (overtaken \cup robbed) : C!Running(p) => uses[p] \ missed[p] \subseteq folders
    BY <1>1 DEF StoreInv, InUse, Counts, Needed
  <2>2. C!FoldersOf(piLink) \subseteq folders /\ C!FoldersOf(named) \subseteq folders
    <3>1. C!TypeOK /\ NamedSets  BY <1>1 DEF StoreInv
    <3>2. piLink # None /\ named # None  BY <3>1, StoreAssumption DEF C!TypeOK
    <3> QED  BY <3>1, <3>2 DEF NamedSets
  <2> QED  BY <2>1, <2>2 DEF NeededStays, C!NeededStays, C!FoldersOf
<1> QED  BY <1>1, StoreHolds, PTL

------------------------------------------------------------------------------
(* The conversation that is compacted (CacheCompaction) *)

\* A message has one version in the conversation, and a number that was given.
OneVersion ==
    /\ \A a, b \in told : a[1] = b[1] => a = b
    /\ \A a \in told : a[1] <= used.messages

\* Since its first k entries, the branch b got no message.
NothingSince(b, k) ==
    /\ k <= Len(b)
    /\ \A i \in k + 1 .. Len(b) : b[i].covers = {}

\* The first message of b after its first k entries can be kept first.
RepliedTo(b, k) ==
    \E j \in k + 1 .. Len(b) :
       /\ M!CutPoint(b[j])
       /\ \A i \in k + 1 .. j - 1 : b[i].covers = {}

\* The branch goes on from a request that is built or streams, and from one that is summarized.
GoesOn ==
    /\ turn = "built" /\ pending # None => NothingSince(branch, Len(pending.branch))
    /\ turn = "streaming" /\ latest # None => NothingSince(branch, Len(latest.branch))
    /\ summary # None /\ summary.result # "failed" => RepliedTo(branch, Len(summary.cap.branch))

\* Pi compacts between requests, and nothing is planned or captured meanwhile; a summary that
\* it waits for is held for it.
Quiet ==
    compact # None =>
       /\ turn \in {"idle", "called"} /\ latest = None /\ ~timer /\ ~warm
       /\ compact.step = "wait" => summary # None /\ summary.place = "used"

CacheInv == M!TypeOK /\ OneVersion /\ GoesOn /\ Quiet /\ M!ToldOnce /\ M!WarmAlone

\* At first the conversation is empty.
LEMMA CacheStarts == M!Init => CacheInv
<1> SUFFICES ASSUME M!Init PROVE CacheInv  OBVIOUS
<1> USE DEF M!Init
<1>1. M!TypeOK
  <2>1. branch \in Seq(M!Entries) /\ told \in SUBSET M!Versions  OBVIOUS
  <2>2. used \in M!Spent  BY CacheAssumption DEF M!Spent
  <2> QED  BY <2>1, <2>2 DEF M!TypeOK
<1>2. OneVersion /\ GoesOn /\ Quiet  BY DEF OneVersion, GoesOn, Quiet
<1>3. M!ToldOnce  BY DEF M!ToldOnce, M!Covered
<1>4. M!WarmAlone  BY DEF M!WarmAlone
<1> QED  BY <1>1, <1>2, <1>3, <1>4 DEF CacheInv

\* A message at the end: a new number, so no other entry covers it.
LEMMA SaysAdds ==
  ASSUME CacheInv, NEW kind \in {"user", "reply", "tool"}, M!Says(kind)
  PROVE  /\ branch' \in Seq(M!Entries) /\ told' \in SUBSET M!Versions
         /\ used' \in M!Spent
         /\ Len(branch') = Len(branch) + 1
         /\ \A i \in 1 .. Len(branch) : branch'[i] = branch[i]
         /\ branch'[Len(branch')].kind = kind
         /\ OneVersion' /\ M!ToldOnce'
<1> DEFINE n == used.messages + 1
           e == [id |-> <<"m", n>>, kind |-> kind, covers |-> {<<n, 0>>}]
<1>1. /\ branch \in Seq(M!Entries) /\ told \in SUBSET M!Versions /\ n \in 1 .. MaxMessages
      /\ used \in M!Spent
      /\ OneVersion /\ M!ToldOnce
  BY CacheAssumption DEF CacheInv, M!TypeOK, M!Spent, M!Says
<1>2. /\ branch' = Append(branch, e) /\ told' = told \cup {<<n, 0>>}
      /\ used' = [used EXCEPT !.messages = n]
  BY DEF M!Says, M!Message, M!Spend
<1>3. <<n, 0>> \in M!Versions /\ e \in M!Entries /\ e.kind = kind /\ e.covers = {<<n, 0>>}
  BY <1>1, CacheAssumption DEF M!Versions, M!Entries, M!EntryIds, M!Kinds
<1>4. used'.messages = n /\ used' \in M!Spent /\ n \in Nat
  BY <1>1, <1>2, CacheAssumption DEF M!Spent
<1>5. \A a \in told : a \in Nat \X {0, 1} /\ a[1] < n
  BY <1>1, <1>4 DEF OneVersion, M!Versions, M!Spent
<1> HIDE DEF n, e
<1>6. /\ branch' \in Seq(M!Entries) /\ Len(branch') = Len(branch) + 1
      /\ \A i \in 1 .. Len(branch) : branch'[i] = branch[i]
      /\ branch'[Len(branch) + 1] = e
      /\ DOMAIN branch = 1 .. Len(branch) /\ DOMAIN branch' = 1 .. Len(branch) + 1
      /\ Len(branch) \in Nat
  BY <1>1, <1>2, <1>3
<1>7. OneVersion'
  <2>1. <<n, 0>>[1] = n /\ \A a \in told : a[1] \in Nat /\ a[1] < n  BY <1>5
  <2>2. \A a \in told' : a[1] <= n
    BY <1>1, <1>2, <2>1
  <2>3. ASSUME NEW a \in told', NEW b \in told', a[1] = b[1] PROVE a = b
    <3>1. CASE a \in told /\ b \in told  BY <1>1, <2>3, <3>1 DEF OneVersion
    <3>2. CASE a = <<n, 0>> \/ b = <<n, 0>>  BY <1>2, <1>4, <2>1, <2>3, <3>2
    <3> QED  BY <1>2, <3>1, <3>2
  <2> QED  BY <1>4, <2>2, <2>3 DEF OneVersion
<1>8. M!Covered(branch') = M!Covered(branch) \cup {<<n, 0>>}
  BY <1>3, <1>6 DEF M!Covered
<1>9. \A i \in DOMAIN branch : <<n, 0>> \notin branch[i].covers
  BY <1>1, <1>5 DEF M!ToldOnce, M!Covered
<1>10. M!ToldOnce'
  <2>1. M!Covered(branch') = told'  BY <1>1, <1>2, <1>8 DEF M!ToldOnce
  <2>2. ASSUME NEW i \in DOMAIN branch', NEW j \in DOMAIN branch', i # j
        PROVE  branch'[i].covers \cap branch'[j].covers = {}
    <3>1. CASE i \in DOMAIN branch /\ j \in DOMAIN branch
      BY <1>1, <1>6, <2>2, <3>1 DEF M!ToldOnce
    <3>2. CASE i = Len(branch) + 1 /\ j \in DOMAIN branch  BY <1>3, <1>6, <1>9, <3>2
    <3>3. CASE j = Len(branch) + 1 /\ i \in DOMAIN branch  BY <1>3, <1>6, <1>9, <3>3
    <3> QED  BY <1>6, <2>2, <3>1, <3>2, <3>3
  <2> QED  BY <2>1, <2>2 DEF M!ToldOnce
<1> QED  BY <1>1, <1>2, <1>3, <1>4, <1>6, <1>7, <1>10

\* A record of a warm covers no message.
LEMMA NoteAdds ==
  ASSUME CacheInv, M!Note
  PROVE  /\ branch' \in Seq(M!Entries) /\ told' = told
         /\ used' \in M!Spent
         /\ Len(branch') >= Len(branch)
         /\ \A i \in 1 .. Len(branch) : branch'[i] = branch[i]
         /\ \A i \in Len(branch) + 1 .. Len(branch') : branch'[i].covers = {}
         /\ OneVersion' /\ M!ToldOnce'
<1> DEFINE e == [id |-> <<"n", used.notes + 1>>, kind |-> "note", covers |-> {}]
<1>1. /\ branch \in Seq(M!Entries) /\ told \in SUBSET M!Versions
      /\ used \in M!Spent
      /\ OneVersion /\ M!ToldOnce
  BY DEF CacheInv, M!TypeOK
<1>2. told' = told  BY DEF M!Note
<1>3. CASE UNCHANGED <<branch, used>>
  BY <1>1, <1>2, <1>3 DEF OneVersion, M!ToldOnce, M!Covered
<1>4. CASE /\ branch' = Append(branch, e) /\ used' = [used EXCEPT !.notes = used.notes + 1]
           /\ used.notes < MaxNotes
  <2>1. e \in M!Entries /\ e.covers = {}
    BY <1>1, CacheAssumption DEF M!Entries, M!EntryIds, M!Kinds, M!Spent
  <2> HIDE DEF e
  <2>2. used' \in M!Spent /\ used'.messages = used.messages
    <3>1. used' = [used EXCEPT !.notes = used.notes + 1]  BY <1>4
    <3> QED  BY <1>1, <1>4, <3>1, CacheAssumption DEF M!Spent
  <2>3. /\ branch' \in Seq(M!Entries) /\ Len(branch') = Len(branch) + 1
        /\ \A i \in 1 .. Len(branch) : branch'[i] = branch[i]
        /\ branch'[Len(branch) + 1] = e
        /\ DOMAIN branch = 1 .. Len(branch) /\ DOMAIN branch' = 1 .. Len(branch) + 1
        /\ Len(branch) \in Nat
    BY <1>1, <1>4, <2>1
  <2>4. OneVersion'  BY <1>1, <1>2, <2>2 DEF OneVersion
  <2>5. M!Covered(branch') = M!Covered(branch)  BY <2>1, <2>3 DEF M!Covered
  <2>6. M!ToldOnce'  BY <1>1, <1>2, <2>1, <2>3, <2>5 DEF M!ToldOnce
  <2> QED  BY <1>2, <2>1, <2>2, <2>3, <2>4, <2>6
<1> QED  BY <1>3, <1>4 DEF M!Note, M!Spend

\* c has the entries of b at its beginning, each with its kind, and with messages where b has some.
SameShape(b, c) ==
    /\ Len(b) <= Len(c)
    /\ \A i \in 1 .. Len(b) : c[i].kind = b[i].kind /\ (c[i].covers = {} <=> b[i].covers = {})

\* A branch that keeps its shape goes on from what it went on from.
LEMMA ShapeKeeps ==
  ASSUME NEW b \in Seq(M!Entries), NEW c \in Seq(M!Entries), NEW k \in Nat, SameShape(b, c)
  PROVE  /\ RepliedTo(b, k) => RepliedTo(c, k)
         /\ (NothingSince(b, k) /\ \A i \in Len(b) + 1 .. Len(c) : c[i].covers = {})
               => NothingSince(c, k)
<1>1. Len(b) \in Nat /\ Len(c) \in Nat /\ Len(b) <= Len(c)  BY DEF SameShape
<1>2. ASSUME RepliedTo(b, k) PROVE RepliedTo(c, k)
  <2>1. PICK j \in k + 1 .. Len(b) : M!CutPoint(b[j]) /\ \A i \in k + 1 .. j - 1 : b[i].covers = {}
    BY <1>2 DEF RepliedTo
  <2>2. j \in k + 1 .. Len(c) /\ M!CutPoint(c[j])  BY <1>1, <2>1 DEF SameShape, M!CutPoint
  <2>3. \A i \in k + 1 .. j - 1 : c[i].covers = {}  BY <1>1, <2>1 DEF SameShape
  <2> QED  BY <2>2, <2>3 DEF RepliedTo
<1>3. ASSUME NothingSince(b, k), \A i \in Len(b) + 1 .. Len(c) : c[i].covers = {}
      PROVE  NothingSince(c, k)
  BY <1>1, <1>3 DEF NothingSince, SameShape
<1> QED  BY <1>2, <1>3

\* An edited message is the message, in a version that was not in the conversation.
LEMMA EditTells ==
  ASSUME CacheInv, M!Edit
  PROVE  /\ branch' \in Seq(M!Entries) /\ told' \in SUBSET M!Versions
         /\ used' \in M!Spent
         /\ Len(branch') = Len(branch) /\ SameShape(branch, branch')
         /\ OneVersion' /\ M!ToldOnce'
<1>1. /\ branch \in Seq(M!Entries) /\ told \in SUBSET M!Versions
      /\ used \in M!Spent
      /\ OneVersion /\ M!ToldOnce
  BY DEF CacheInv, M!TypeOK
<1>2. PICK i \in 1 .. Len(branch), n \in 1 .. MaxMessages :
         /\ branch[i].covers = {<<n, 0>>}
         /\ branch' = [branch EXCEPT ![i].covers = {<<n, 1>>}]
         /\ told' = (told \ {<<n, 0>>}) \cup {<<n, 1>>}
  BY DEF M!Edit
<1>3. used' = [used EXCEPT !["events"] = used["events"] + 1]  BY DEF M!Edit, M!Event, M!Spend
<1>4. used' \in M!Spent /\ used'.messages = used.messages /\ used.messages \in Nat
  <2>1. used["events"] < MaxEvents  BY DEF M!Edit, M!Event
  <2> QED  BY <1>1, <1>3, <2>1, CacheAssumption DEF M!Spent
<1>5. <<n, 0>> \in M!Versions /\ n \in Nat
  <2>1. branch[i] \in M!Entries  BY <1>1
  <2> QED  BY <1>2, <2>1 DEF M!Entries, M!Versions
<1> DEFINE e == [branch[i] EXCEPT !.covers = {<<n, 1>>}]
<1>6. branch[i] \in M!Entries /\ e \in M!Entries /\ e.covers = {<<n, 1>>} /\ e.kind = branch[i].kind
  <2>1. branch[i] \in M!Entries  BY <1>1
  <2>2. {<<n, 1>>} \in SUBSET M!Versions  BY <1>5 DEF M!Versions
  <2> HIDE DEF M!Versions
  <2> QED  BY <2>1, <2>2 DEF M!Entries
<1>7. branch' = [branch EXCEPT ![i] = e]  BY <1>2
<1> HIDE DEF e
<1>8. /\ branch' \in Seq(M!Entries) /\ Len(branch') = Len(branch) /\ Len(branch) \in Nat
      /\ DOMAIN branch = 1 .. Len(branch) /\ DOMAIN branch' = 1 .. Len(branch)
      /\ branch'[i] = e /\ \A j \in 1 .. Len(branch) : j # i => branch'[j] = branch[j]
  BY <1>1, <1>6, <1>7
<1>9. SameShape(branch, branch')
  <2>1. branch'[i].kind = branch[i].kind /\ branch'[i].covers # {} /\ branch[i].covers # {}
    BY <1>2, <1>6, <1>8
  <2>2. \A j \in 1 .. Len(branch) :
           j # i => branch'[j].kind = branch[j].kind /\ branch'[j].covers = branch[j].covers
    BY <1>8
  <2> QED  BY <1>8, <2>1, <2>2 DEF SameShape
<1>10. <<n, 0>> \in told  BY <1>1, <1>2 DEF M!ToldOnce, M!Covered
<1>11. <<n, 1>> \notin told
  <2>1. <<n, 0>>[1] = <<n, 1>>[1] /\ <<n, 0>> # <<n, 1>>  OBVIOUS
  <2> QED  BY <1>1, <1>10, <2>1 DEF OneVersion
<1>12. OneVersion'
  <2>1. <<n, 0>>[1] = n /\ <<n, 1>>[1] = n  OBVIOUS
  <2>2. \A a \in told' : a[1] <= used'.messages
    BY <1>1, <1>2, <1>4, <1>10, <2>1 DEF OneVersion
  <2>3. ASSUME NEW a \in told', NEW b \in told', a[1] = b[1] PROVE a = b
    <3>1. \A c \in told : c[1] = n => c = <<n, 0>>  BY <1>1, <1>10, <2>1 DEF OneVersion
    <3>2. CASE a \in told /\ b \in told  BY <1>1, <2>3, <3>2 DEF OneVersion
    <3>3. CASE a = <<n, 1>> \/ b = <<n, 1>>  BY <1>2, <2>1, <2>3, <3>1, <3>3
    <3> QED  BY <1>2, <3>2, <3>3
  <2> QED  BY <2>2, <2>3 DEF OneVersion
<1>13. \A j \in DOMAIN branch :
          j # i => <<n, 0>> \notin branch[j].covers /\ <<n, 1>> \notin branch[j].covers
  BY <1>1, <1>2, <1>8, <1>11 DEF M!ToldOnce, M!Covered
<1>14. M!ToldOnce'
  <2>1. \A c : c \in M!Covered(branch') <=> (c \in M!Covered(branch) /\ c # <<n, 0>>) \/ c = <<n, 1>>
    <3> TAKE c
    <3>1. c \in M!Covered(branch) <=> \E j \in DOMAIN branch : c \in branch[j].covers  BY DEF M!Covered
    <3>2. c \in M!Covered(branch') <=> \E j \in DOMAIN branch' : c \in branch'[j].covers
      BY DEF M!Covered
    <3>3. branch'[i].covers = {<<n, 1>>} /\ branch[i].covers = {<<n, 0>>}  BY <1>2, <1>6, <1>8
    <3>4. \A j \in DOMAIN branch : j # i => branch'[j].covers = branch[j].covers  BY <1>8
    <3>5. <<n, 0>> # <<n, 1>>  OBVIOUS
    <3> QED  BY <1>8, <1>13, <3>1, <3>2, <3>3, <3>4, <3>5
  <2>2. M!Covered(branch') = told'  BY <1>1, <1>2, <2>1 DEF M!ToldOnce
  <2>3. ASSUME NEW j \in DOMAIN branch', NEW k \in DOMAIN branch', j # k
        PROVE  branch'[j].covers \cap branch'[k].covers = {}
    <3>1. CASE j # i /\ k # i  BY <1>1, <1>8, <2>3, <3>1 DEF M!ToldOnce
    <3>2. CASE j = i  BY <1>6, <1>8, <1>13, <2>3, <3>2
    <3>3. CASE k = i  BY <1>6, <1>8, <1>13, <2>3, <3>3
    <3> QED  BY <3>1, <3>2, <3>3
  <2> QED  BY <2>2, <2>3 DEF M!ToldOnce
<1> QED  BY <1>1, <1>2, <1>4, <1>5, <1>8, <1>9, <1>12, <1>14 DEF M!Versions

\* Back in the tree, the conversation is what was told up to there.
LEMMA NavigateTells ==
  ASSUME CacheInv, M!Navigate
  PROVE  /\ branch' \in Seq(M!Entries) /\ told' \in SUBSET M!Versions
         /\ used' \in M!Spent
         /\ OneVersion' /\ M!ToldOnce'
<1>1. /\ branch \in Seq(M!Entries) /\ told \in SUBSET M!Versions
      /\ used \in M!Spent
      /\ OneVersion /\ M!ToldOnce
  BY DEF CacheInv, M!TypeOK
<1>2. PICK n \in 1 .. Len(branch) - 1 :
         branch' = SubSeq(branch, 1, n) /\ told' = M!Covered(SubSeq(branch, 1, n))
  BY DEF M!Navigate
<1>3. used' = [used EXCEPT !["events"] = used["events"] + 1]  BY DEF M!Navigate, M!Event, M!Spend
<1>4. used' \in M!Spent /\ used'.messages = used.messages /\ used.messages \in Nat
  <2>1. used["events"] < MaxEvents  BY DEF M!Navigate, M!Event
  <2> QED  BY <1>1, <1>3, <2>1, CacheAssumption DEF M!Spent
<1>5. /\ branch' \in Seq(M!Entries) /\ Len(branch') = n /\ n \in Nat
      /\ DOMAIN branch = 1 .. Len(branch) /\ DOMAIN branch' = 1 .. n
      /\ \A i \in 1 .. n : i \in 1 .. Len(branch) /\ branch'[i] = branch[i]
  BY <1>1, <1>2
<1>6. told' = M!Covered(branch')  BY <1>2
<1>7. told' \subseteq told  BY <1>1, <1>5, <1>6 DEF M!ToldOnce, M!Covered
<1>8. M!ToldOnce'  BY <1>1, <1>5, <1>6 DEF M!ToldOnce
<1>9. OneVersion'  BY <1>1, <1>4, <1>7 DEF OneVersion
<1> QED  BY <1>1, <1>4, <1>5, <1>7, <1>8, <1>9

\* A compaction puts one entry in the place of those before i.
LEMMA CompactedTells ==
  ASSUME CacheInv, NEW i \in 1 .. Len(branch), NEW covers \in SUBSET M!Versions,
         M!Compacted(covers, SubSeq(branch, i, Len(branch))),
         \A c : (c \in covers \/ \E j \in i .. Len(branch) : c \in branch[j].covers) <=> c \in told,
         \A j \in i .. Len(branch) : covers \cap branch[j].covers = {}
  PROVE  branch' \in Seq(M!Entries) /\ M!ToldOnce'
<1> DEFINE rest == SubSeq(branch, i, Len(branch))
           e == [id |-> <<"s", used.messages, Len(rest)>>, kind |-> "summary", covers |-> covers]
<1>1. /\ branch \in Seq(M!Entries) /\ told' = told /\ branch' = <<e>> \o rest
      /\ used \in M!Spent /\ M!ToldOnce
      /\ Len(branch) \in Nat
  BY DEF CacheInv, M!TypeOK, M!Compacted
<1>2. /\ rest \in Seq(M!Entries) /\ Len(rest) = Len(branch) - i + 1 /\ Len(rest) \in Nat
      /\ \A j \in 1 .. Len(rest) : rest[j] = branch[i + j - 1] /\ i + j - 1 \in i .. Len(branch)
  BY <1>1
<1>3. e \in M!Entries /\ e.covers = covers
  <2>1. <<"s", used.messages, Len(rest)>> \in M!EntryIds
    BY <1>1, <1>2, CacheAssumption DEF M!EntryIds, M!Spent
  <2> HIDE DEF M!EntryIds
  <2> QED  BY <2>1 DEF M!Entries, M!Kinds
<1> HIDE DEF e, rest
<1>4. /\ branch' \in Seq(M!Entries) /\ Len(branch') = Len(rest) + 1
      /\ DOMAIN branch' = 1 .. Len(rest) + 1
      /\ branch'[1] = e /\ \A j \in 2 .. Len(rest) + 1 : branch'[j] = rest[j - 1]
  <2>1. <<e>> \in Seq(M!Entries) /\ Len(<<e>>) = 1 /\ <<e>>[1] = e  BY <1>3
  <2>2. branch' \in Seq(M!Entries) /\ Len(branch') = 1 + Len(rest)  BY <1>1, <1>2, <2>1
  <2>3. branch'[1] = e  BY <1>1, <1>2, <2>1
  <2>4. \A j \in 2 .. Len(rest) + 1 : branch'[j] = rest[j - 1]  BY <1>1, <1>2, <2>1
  <2> QED  BY <1>2, <2>2, <2>3, <2>4
<1>5. \A j \in 2 .. Len(rest) + 1 : branch'[j] = branch[i + j - 2] /\ i + j - 2 \in i .. Len(branch)
  <2> TAKE j \in 2 .. Len(rest) + 1
  <2>1. j - 1 \in 1 .. Len(rest) /\ i + (j - 1) - 1 = i + j - 2  BY <1>2
  <2> QED  BY <1>2, <1>4, <2>1
<1>6. ASSUME NEW c PROVE c \in M!Covered(branch') <=> c \in told
  <2>1. c \in M!Covered(branch') <=> \E j \in 1 .. Len(rest) + 1 : c \in branch'[j].covers
    BY <1>4 DEF M!Covered
  <2>2. ASSUME NEW j \in i .. Len(branch)
        PROVE  j - i + 2 \in 2 .. Len(rest) + 1 /\ branch'[j - i + 2] = branch[j]
    <3>1. j - i + 2 \in 2 .. Len(rest) + 1 /\ i + (j - i + 2) - 2 = j  BY <1>1, <1>2
    <3> QED  BY <1>5, <3>1
  <2>3. ASSUME c \in M!Covered(branch') PROVE c \in told
    <3>1. PICK j \in 1 .. Len(rest) + 1 : c \in branch'[j].covers  BY <2>1, <2>3
    <3>2. CASE j = 1  BY <1>3, <1>4, <3>1, <3>2
    <3>3. CASE j # 1
      <4>1. j \in 2 .. Len(rest) + 1  BY <1>2, <3>3
      <4> QED  BY <1>5, <3>1, <4>1
    <3> QED  BY <3>2, <3>3
  <2>4. ASSUME c \in told PROVE c \in M!Covered(branch')
    <3>1. CASE c \in covers
      <4>1. 1 \in 1 .. Len(rest) + 1  BY <1>2
      <4> QED  BY <1>3, <1>4, <2>1, <3>1, <4>1
    <3>2. CASE \E j \in i .. Len(branch) : c \in branch[j].covers
      <4>1. PICK j \in i .. Len(branch) : c \in branch[j].covers  BY <3>2
      <4>2. j - i + 2 \in 1 .. Len(rest) + 1 /\ branch'[j - i + 2] = branch[j]  BY <1>2, <2>2
      <4> QED  BY <2>1, <4>1, <4>2
    <3> QED  BY <2>4, <3>1, <3>2
  <2> QED  BY <2>3, <2>4
<1>7. ASSUME NEW j \in DOMAIN branch', NEW k \in DOMAIN branch', j # k
      PROVE  branch'[j].covers \cap branch'[k].covers = {}
  <2>1. \A l \in DOMAIN branch' : l # 1 => l \in 2 .. Len(rest) + 1  BY <1>2, <1>4
  <2>2. CASE j = 1  BY <1>3, <1>4, <1>5, <1>7, <2>1, <2>2
  <2>3. CASE k = 1  BY <1>3, <1>4, <1>5, <1>7, <2>1, <2>3
  <2>4. CASE j # 1 /\ k # 1
    <3>1. j \in 2 .. Len(rest) + 1 /\ k \in 2 .. Len(rest) + 1  BY <2>1, <2>4
    <3>2. branch'[j] = branch[i + j - 2] /\ branch'[k] = branch[i + k - 2]  BY <1>5, <3>1
    <3>3. i + j - 2 \in DOMAIN branch /\ i + k - 2 \in DOMAIN branch /\ i + j - 2 # i + k - 2
      BY <1>1, <1>5, <1>7, <3>1
    <3> QED  BY <1>1, <3>2, <3>3 DEF M!ToldOnce
  <2> QED  BY <2>2, <2>3, <2>4
<1>8. M!Covered(branch') = told  BY <1>6
<1> QED  BY <1>1, <1>4, <1>7, <1>8 DEF M!ToldOnce

\* The background summary covers its request, and what it keeps begins with the first
\* message after the request.
LEMMA UseSummaryTells ==
  ASSUME CacheInv, M!UseSummary
  PROVE  branch' \in Seq(M!Entries) /\ M!ToldOnce'
<1> DEFINE cap == summary.cap.branch
           k == Len(cap)
<1>1. /\ summary # None /\ summary.result = "ready" /\ M!Extends(summary.cap)
      /\ branch \in Seq(M!Entries) /\ Len(branch) \in Nat /\ DOMAIN branch = 1 .. Len(branch)
      /\ M!ToldOnce /\ GoesOn
  <2>1. summary.result = "ready" /\ M!Extends(summary.cap) /\ summary # None
    BY DEF M!UseSummary, M!Usable, CacheInv, Quiet
  <2> QED  BY <2>1 DEF CacheInv, M!TypeOK
<1>2. cap \in Seq(M!Entries) /\ k \in Nat /\ k <= Len(branch) /\ SubSeq(branch, 1, k) = cap
  <2>1. summary \in M!Summaries  BY <1>1 DEF CacheInv, M!TypeOK
  <2>2. summary.cap \in M!Requests  BY <2>1 DEF M!Summaries
  <2>3. cap \in Seq(M!Entries)  BY <2>2 DEF M!Requests
  <2> QED  BY <1>1, <2>3 DEF M!Extends
<1>3. PICK i \in M!Kept :
         /\ \A j \in M!Kept : i <= j
         /\ M!Compacted(M!Covered(cap), SubSeq(branch, i, Len(branch)))
  BY DEF M!UseSummary
<1>4. i \in k + 1 .. Len(branch)  BY <1>3 DEF M!Kept
<1> HIDE DEF cap
<1>5. \A j \in 1 .. k : cap[j] = branch[j]
  <2>1. \A j \in 1 .. k : SubSeq(branch, 1, k)[j] = branch[j]  BY <1>1, <1>2
  <2> QED  BY <1>2, <2>1
<1>6. \A c : c \in M!Covered(cap) <=> \E j \in 1 .. k : c \in branch[j].covers
  BY <1>2, <1>5 DEF M!Covered
<1>7. \A j \in k + 1 .. i - 1 : branch[j].covers = {}
  <2>1. RepliedTo(branch, k)  BY <1>1 DEF GoesOn, cap
  <2>2. PICK j \in k + 1 .. Len(branch) :
           M!CutPoint(branch[j]) /\ \A l \in k + 1 .. j - 1 : branch[l].covers = {}
    BY <2>1 DEF RepliedTo
  <2>3. j \in M!Kept  BY <2>2 DEF M!Kept, cap
  <2> QED  BY <1>1, <1>2, <1>3, <1>4, <2>2, <2>3
<1>8. M!Covered(cap) \in SUBSET M!Versions
  <2>1. \A j \in 1 .. k : branch[j] \in M!Entries  BY <1>1, <1>2
  <2> QED  BY <1>6, <2>1 DEF M!Entries
<1>9. ASSUME NEW c
      PROVE  (c \in M!Covered(cap) \/ \E j \in i .. Len(branch) : c \in branch[j].covers) <=> c \in told
  <2>1. c \in told <=> \E j \in 1 .. Len(branch) : c \in branch[j].covers
    BY <1>1 DEF M!ToldOnce, M!Covered
  <2>2. \A j \in 1 .. Len(branch) : j \in 1 .. k \/ j \in k + 1 .. i - 1 \/ j \in i .. Len(branch)
    BY <1>1, <1>2, <1>4
  <2>3. \A j \in 1 .. k : j \in 1 .. Len(branch)  BY <1>1, <1>2
  <2>4. \A j \in i .. Len(branch) : j \in 1 .. Len(branch)  BY <1>1, <1>2, <1>4
  <2> QED  BY <1>6, <1>7, <2>1, <2>2, <2>3, <2>4
<1>10. ASSUME NEW j \in i .. Len(branch) PROVE M!Covered(cap) \cap branch[j].covers = {}
  <2>1. \A l \in 1 .. k : l \in DOMAIN branch /\ j \in DOMAIN branch /\ l # j  BY <1>1, <1>2, <1>4
  <2> QED  BY <1>1, <1>6, <2>1 DEF M!ToldOnce
<1>11. i \in 1 .. Len(branch)  BY <1>2, <1>4
<1> QED  BY <1>3, <1>8, <1>9, <1>10, <1>11, CompactedTells

\* Pi's own summary covers what is before the first entry that it keeps.
LEMMA UseOwnTells ==
  ASSUME CacheInv, M!UseOwn
  PROVE  branch' \in Seq(M!Entries) /\ M!ToldOnce'
<1>1. branch \in Seq(M!Entries) /\ Len(branch) \in Nat /\ DOMAIN branch = 1 .. Len(branch) /\ M!ToldOnce
  BY DEF CacheInv, M!TypeOK
<1>2. PICK i \in 1 .. Len(branch) :
         /\ M!Covered(SubSeq(branch, 1, i - 1)) = compact.covers
         /\ M!Compacted(compact.covers, SubSeq(branch, i, Len(branch)))
  BY DEF M!UseOwn
<1> DEFINE before1 == SubSeq(branch, 1, i - 1)
<1>3. /\ Len(before1) = i - 1 /\ DOMAIN before1 = 1 .. i - 1 /\ i - 1 \in Nat
      /\ \A j \in 1 .. i - 1 : before1[j] = branch[j] /\ j \in 1 .. Len(branch)
  BY <1>1
<1>4. \A c : c \in compact.covers <=> \E j \in 1 .. i - 1 : c \in branch[j].covers
  <2> HIDE DEF before1
  <2>1. M!Covered(before1) = compact.covers  BY <1>2 DEF before1
  <2> QED  BY <1>3, <2>1 DEF M!Covered
<1>5. compact.covers \in SUBSET M!Versions
  <2>1. \A j \in 1 .. i - 1 : branch[j] \in M!Entries  BY <1>1, <1>3
  <2> QED  BY <1>4, <2>1 DEF M!Entries
<1>6. ASSUME NEW c
      PROVE  (c \in compact.covers \/ \E j \in i .. Len(branch) : c \in branch[j].covers) <=> c \in told
  <2>1. c \in told <=> \E j \in 1 .. Len(branch) : c \in branch[j].covers
    BY <1>1 DEF M!ToldOnce, M!Covered
  <2>2. \A j \in 1 .. Len(branch) : j \in 1 .. i - 1 \/ j \in i .. Len(branch)  BY <1>1
  <2>3. \A j \in i .. Len(branch) : j \in 1 .. Len(branch)  BY <1>1
  <2> QED  BY <1>3, <1>4, <2>1, <2>2, <2>3
<1>7. ASSUME NEW j \in i .. Len(branch) PROVE compact.covers \cap branch[j].covers = {}
  <2>1. \A l \in 1 .. i - 1 : l \in DOMAIN branch /\ j \in DOMAIN branch /\ l # j  BY <1>1, <1>3
  <2> QED  BY <1>1, <1>4, <2>1 DEF M!ToldOnce
<1> QED  BY <1>2, <1>5, <1>6, <1>7, CompactedTells

\* The types, but for the branch and what is told.
OtherTypes ==
    /\ model \in Models
    /\ turn \in {"idle", "called", "built", "streaming", "tools"}
    /\ pending \in M!Requests \cup {None} /\ latest \in M!Requests \cup {None}
    /\ summary \in M!Summaries \cup {None}
    /\ compact \in M!Compactions \cup {None}
    /\ {timer, warm, stray, wake} \subseteq BOOLEAN

\* Whatever a step does to the branch, it is one of these.
Tells ==
    /\ branch' \in Seq(M!Entries) /\ told' \in SUBSET M!Versions /\ used' \in M!Spent
    /\ OneVersion' /\ M!ToldOnce'

\* Each step tells each message once: it adds one, edits one, goes back, or compacts.
LEMMA ToldKept ==
  ASSUME CacheInv, [M!Next]_M!vars
  PROVE  Tells
<1> USE DEF Tells, M!cache, M!session
<1>0. /\ branch \in Seq(M!Entries) /\ told \in SUBSET M!Versions /\ used \in M!Spent
      /\ OneVersion /\ M!ToldOnce
  BY DEF CacheInv, M!TypeOK
<1>1. ASSUME UNCHANGED <<branch, told, used>> PROVE Tells
  BY <1>0, <1>1 DEF OneVersion, M!ToldOnce, M!Covered
<1>2. ASSUME NEW kind \in {"user", "reply", "tool"}, M!Says(kind) PROVE Tells  BY <1>2, SaysAdds
<1>3. CASE M!Note  BY <1>0, <1>3, NoteAdds
<1>4. CASE M!Edit  BY <1>4, EditTells
<1>5. CASE M!Navigate  BY <1>5, NavigateTells
<1>6. CASE M!SelectModel
  <2>1. used' = [used EXCEPT !["events"] = used["events"] + 1] /\ used["events"] < MaxEvents
    BY <1>6 DEF M!SelectModel, M!Event, M!Spend
  <2>2. used' \in M!Spent /\ used'.messages = used.messages
    BY <1>0, <2>1, CacheAssumption DEF M!Spent
  <2>3. branch' = branch /\ told' = told  BY <1>6 DEF M!SelectModel
  <2> QED  BY <1>0, <2>2, <2>3 DEF OneVersion, M!ToldOnce, M!Covered
<1>7. CASE M!UseSummary \/ M!UseOwn
  <2>1. told' = told /\ used' = used  BY <1>7 DEF M!UseSummary, M!UseOwn, M!Compacted
  <2>2. OneVersion'  BY <1>0, <2>1 DEF OneVersion
  <2> QED  BY <1>0, <1>7, <2>1, <2>2, UseSummaryTells, UseOwnTells
<1> HIDE DEF Tells
<1> QED
  BY <1>1, <1>2, <1>3, <1>4, <1>5, <1>6, <1>7
     DEF M!Next, M!vars, M!Prompt, M!BuildRequest, M!SendRequest, M!Reply, M!ReplyFails, M!ToolEnds,
         M!Steer, M!WakeChanges, M!SummaryEnds, M!BeginCompact, M!LeaveSummary, M!NoCompaction,
         M!FireLater, M!Fire, M!FireStops, M!WarmEnds, M!WarmFails, M!LateEnds

\* The other variables keep their types.
LEMMA OtherTypesKept ==
  ASSUME CacheInv, [M!Next]_M!vars
  PROVE  OtherTypes'
<1> USE DEF OtherTypes, M!cache, M!session, M!Clear, M!WarmAborted
<1>0. OtherTypes /\ branch \in Seq(M!Entries)  BY DEF CacheInv, M!TypeOK
<1>1. CASE M!Prompt \/ M!ToolEnds \/ M!Steer \/ M!ReplyFails
  BY <1>0, <1>1 DEF M!Prompt, M!ToolEnds, M!Steer, M!ReplyFails
<1>2. CASE M!BuildRequest
  <2>1. [branch |-> branch, model |-> model] \in M!Requests  BY <1>0 DEF M!Requests
  <2> QED  BY <1>0, <1>2, <2>1 DEF M!BuildRequest
<1>3. CASE M!SendRequest  BY <1>0, <1>3 DEF M!SendRequest
<1>4. CASE M!Reply
  <2>1. \/ summary' = summary
        \/ /\ latest # None
           /\ \E r \in {"running", "failed"} :
                 summary' = [cap |-> latest, place |-> "held", result |-> r]
    BY <1>4 DEF M!Reply, M!MayStart
  <2>2. summary' \in M!Summaries \cup {None}  BY <1>0, <2>1 DEF M!Summaries
  <2> QED  BY <1>0, <1>4, <2>2 DEF M!Reply
<1>5. CASE M!WakeChanges  BY <1>0, <1>5 DEF M!WakeChanges
<1>6. CASE M!Navigate \/ M!SelectModel
  <2>1. M!Reset  BY <1>6 DEF M!Navigate, M!SelectModel
  <2>2. summary' \in M!Summaries \cup {None}  BY <1>0, <2>1 DEF M!Reset, M!Summaries
  <2>3. pending' = None /\ latest' = None /\ {timer', warm', stray'} \subseteq BOOLEAN
    BY <1>0, <2>1 DEF M!Reset
  <2> QED  BY <1>0, <1>6, <2>2, <2>3 DEF M!Navigate, M!SelectModel
<1>7. CASE M!Edit  BY <1>0, <1>7 DEF M!Edit
<1>8. CASE M!SummaryEnds  BY <1>0, <1>8 DEF M!SummaryEnds, M!Summaries
<1>9. CASE M!BeginCompact
  <2>1. PICK i \in M!Boundaries :
           \/ /\ summary # None
              /\ compact' = [step |-> "wait", first |-> branch[i].id,
                              covers |-> M!Covered(SubSeq(branch, 1, i - 1))]
              /\ summary' = [summary EXCEPT !.place = "used"]
           \/ /\ compact' = [step |-> "request", first |-> branch[i].id,
                              covers |-> M!Covered(SubSeq(branch, 1, i - 1))]
              /\ summary' = None
    BY <1>9 DEF M!BeginCompact
  <2>2. i \in 2 .. Len(branch) /\ Len(branch) \in Nat  BY <1>0 DEF M!Boundaries
  <2>3. branch[i].id \in M!EntryIds
    <3>1. branch[i] \in M!Entries  BY <1>0, <2>2
    <3> QED  BY <3>1 DEF M!Entries
  <2>4. M!Covered(SubSeq(branch, 1, i - 1)) \in SUBSET M!Versions
    <3>1. SubSeq(branch, 1, i - 1) \in Seq(M!Entries)  BY <1>0, <2>2
    <3> QED  BY <3>1 DEF M!Covered, M!Entries
  <2>5. compact' \in M!Compactions  BY <2>1, <2>3, <2>4 DEF M!Compactions
  <2>6. summary' \in M!Summaries \cup {None}  BY <1>0, <2>1 DEF M!Summaries
  <2> QED  BY <1>0, <1>9, <2>5, <2>6 DEF M!BeginCompact
<1>10. CASE M!UseSummary \/ M!UseOwn  BY <1>0, <1>10 DEF M!UseSummary, M!UseOwn, M!Compacted
<1>11. CASE M!LeaveSummary
  <2>1. compact' \in M!Compactions \cup {None}  BY <1>0, <1>11 DEF M!LeaveSummary, M!Compactions
  <2> QED  BY <1>0, <1>11, <2>1 DEF M!LeaveSummary
<1>12. CASE M!NoCompaction  BY <1>0, <1>12 DEF M!NoCompaction
<1>13. CASE M!FireLater \/ M!Fire \/ M!FireStops \/ M!WarmFails
  BY <1>0, <1>13 DEF M!FireLater, M!Fire, M!FireStops, M!WarmFails
<1>14. CASE M!WarmEnds \/ M!LateEnds  BY <1>0, <1>14 DEF M!WarmEnds, M!LateEnds, M!Note
<1>15. CASE UNCHANGED M!vars  BY <1>0, <1>15 DEF M!vars
<1> HIDE DEF OtherTypes
<1> QED
  BY <1>1, <1>2, <1>3, <1>4, <1>5, <1>6, <1>7, <1>8, <1>9, <1>10, <1>11, <1>12, <1>13, <1>14, <1>15
     DEF M!Next

\* A compaction begins between requests and drops what was captured and planned; until it ends
\* no request is built.
LEMMA QuietKept ==
  ASSUME CacheInv, [M!Next]_M!vars
  PROVE  Quiet'
<1> USE DEF Quiet, M!cache, M!session, M!Clear, M!WarmAborted
<1>0. Quiet /\ M!TypeOK  BY DEF CacheInv
<1>1. CASE M!Prompt \/ M!ToolEnds \/ M!Steer \/ M!ReplyFails \/ M!BuildRequest \/ M!SendRequest
           \/ M!WakeChanges \/ M!Edit
  BY <1>0, <1>1 DEF M!Prompt, M!ToolEnds, M!Steer, M!ReplyFails, M!BuildRequest, M!SendRequest,
                    M!WakeChanges, M!Edit
<1>2. CASE M!Reply  BY <1>0, <1>2 DEF M!Reply
<1>3. CASE M!Navigate \/ M!SelectModel
  <2>1. M!Reset /\ turn' = turn /\ compact' = compact  BY <1>3 DEF M!Navigate, M!SelectModel
  <2>2. ASSUME summary # None, summary.place = "used" PROVE summary' # None /\ summary'.place = "used"
    <3>1. summary \in M!Summaries /\ summary' = [summary EXCEPT !.result = "failed"]
      BY <1>0, <2>1, <2>2 DEF M!TypeOK, M!Reset
    <3>2. summary' \in M!Summaries /\ summary'.place = "used"  BY <2>2, <3>1 DEF M!Summaries
    <3> QED  BY <3>2, CacheAssumption
  <2> QED  BY <1>0, <2>1, <2>2 DEF M!Reset
<1>4. CASE M!SummaryEnds
  <2>1. PICK r \in {"ready", "failed"} : summary' = [summary EXCEPT !.result = r]
    BY <1>4 DEF M!SummaryEnds
  <2>2. summary \in M!Summaries  BY <1>0, <1>4 DEF M!SummaryEnds, M!TypeOK
  <2>3. summary' \in M!Summaries /\ summary'.place = summary.place  BY <2>1, <2>2 DEF M!Summaries
  <2>4. summary' # None  BY <2>3, CacheAssumption
  <2> QED  BY <1>0, <1>4, <2>3, <2>4 DEF M!SummaryEnds
<1>5. CASE M!BeginCompact
  <2>1. turn' = turn /\ turn \in {"idle", "called"} /\ latest' = None /\ ~timer' /\ ~warm'
    BY <1>5 DEF M!BeginCompact
  <2>2. \/ /\ summary # None /\ summary' = [summary EXCEPT !.place = "used"]
        \/ compact'.step = "request"
    BY <1>5 DEF M!BeginCompact
  <2>3. ASSUME summary # None, summary' = [summary EXCEPT !.place = "used"]
        PROVE  summary' # None /\ summary'.place = "used"
    <3>1. summary' \in M!Summaries /\ summary'.place = "used"
      BY <1>0, <2>3 DEF M!TypeOK, M!Summaries
    <3> QED  BY <3>1, CacheAssumption
  <2> QED  BY <2>1, <2>2, <2>3
<1>6. CASE M!UseSummary \/ M!UseOwn \/ M!NoCompaction
  BY <1>6 DEF M!UseSummary, M!UseOwn, M!Compacted, M!NoCompaction
<1>7. CASE M!LeaveSummary
  <2>1. compact' # None => compact'.step = "request"
    BY <1>0, <1>7 DEF M!LeaveSummary, M!TypeOK, M!Compactions
  <2> QED  BY <1>0, <1>7, <2>1 DEF M!LeaveSummary
<1>8. CASE M!FireLater \/ M!Fire \/ M!FireStops \/ M!WarmFails \/ M!WarmEnds \/ M!LateEnds
  BY <1>0, <1>8 DEF M!FireLater, M!Fire, M!FireStops, M!WarmFails, M!WarmEnds, M!LateEnds, M!Note
<1>9. CASE UNCHANGED M!vars  BY <1>0, <1>9 DEF M!vars
<1> HIDE DEF Quiet
<1> QED  BY <1>1, <1>2, <1>3, <1>4, <1>5, <1>6, <1>7, <1>8, <1>9 DEF M!Next

\* A warm starts with nothing under way, and each of the others aborts it or waits for its turn.
LEMMA WarmAloneKept ==
  ASSUME CacheInv, [M!Next]_M!vars
  PROVE  M!WarmAlone'
<1> USE DEF M!WarmAlone, M!cache, M!session, M!Clear, M!WarmAborted
<1>0. Quiet /\ M!TypeOK /\ M!WarmAlone  BY DEF CacheInv
<1>1. CASE M!Prompt \/ M!ToolEnds \/ M!Steer \/ M!ReplyFails \/ M!BuildRequest \/ M!SendRequest
           \/ M!WakeChanges \/ M!Edit
  BY <1>0, <1>1 DEF M!Prompt, M!ToolEnds, M!Steer, M!ReplyFails, M!BuildRequest, M!SendRequest,
                    M!WakeChanges, M!Edit
<1>2. CASE M!Reply  BY <1>0, <1>2 DEF M!Reply
<1>3. CASE M!Navigate \/ M!SelectModel  BY <1>3 DEF M!Navigate, M!SelectModel, M!Reset
<1>4. CASE M!SummaryEnds  BY <1>0, <1>4 DEF M!SummaryEnds
<1>5. CASE M!BeginCompact \/ M!UseSummary \/ M!UseOwn
  BY <1>5 DEF M!BeginCompact, M!UseSummary, M!UseOwn, M!Compacted
<1>6. CASE M!LeaveSummary \/ M!NoCompaction  BY <1>0, <1>6 DEF M!LeaveSummary, M!NoCompaction
<1>7. CASE M!Fire  BY <1>0, <1>7 DEF M!Fire, M!Busy, M!AgentRuns, Quiet
<1>8. CASE M!FireLater \/ M!FireStops \/ M!WarmFails \/ M!WarmEnds \/ M!LateEnds
  BY <1>0, <1>8 DEF M!FireLater, M!FireStops, M!WarmFails, M!WarmEnds, M!LateEnds, M!Note
<1>9. CASE UNCHANGED M!vars  BY <1>0, <1>9 DEF M!vars
<1> HIDE DEF M!WarmAlone
<1> QED  BY <1>1, <1>2, <1>3, <1>4, <1>5, <1>6, <1>7, <1>8, <1>9 DEF M!Next

\* While the branch keeps its shape, a summary under way stays one of what came before a reply.
LEMMA SummaryGoesOn ==
  ASSUME CacheInv, branch' \in Seq(M!Entries), SameShape(branch, branch'), UNCHANGED summary
  PROVE  summary' # None /\ summary'.result # "failed" => RepliedTo(branch', Len(summary'.cap.branch))
<1> SUFFICES ASSUME summary # None, summary.result # "failed"
             PROVE  RepliedTo(branch', Len(summary.cap.branch))
  OBVIOUS
<1>1. branch \in Seq(M!Entries) /\ summary \in M!Summaries  BY DEF CacheInv, M!TypeOK
<1>2. Len(summary.cap.branch) \in Nat
  <2>1. summary.cap \in M!Requests  BY <1>1 DEF M!Summaries
  <2>2. summary.cap.branch \in Seq(M!Entries)  BY <2>1 DEF M!Requests
  <2> QED  BY <2>2
<1>3. RepliedTo(branch, Len(summary.cap.branch))  BY DEF CacheInv, GoesOn
<1> QED  BY <1>1, <1>2, <1>3, ShapeKeeps

\* The branch goes on from the requests: messages come only at its end and in the turn's order,
\* and what changes it otherwise drops them.
LEMMA GoesOnKept ==
  ASSUME CacheInv, [M!Next]_M!vars
  PROVE  GoesOn'
<1> USE DEF M!cache, M!session, M!Clear
<1>0. GoesOn /\ M!TypeOK /\ branch \in Seq(M!Entries) /\ branch' \in Seq(M!Entries)
  BY ToldKept DEF CacheInv, M!TypeOK, Tells
<1>1. CASE M!Prompt \/ M!ToolEnds \/ M!Steer
  <2>1. /\ \E kind \in {"user", "reply", "tool"} : M!Says(kind)
        /\ turn' = "called" /\ UNCHANGED summary
    BY <1>1 DEF M!Prompt, M!ToolEnds, M!Steer
  <2>2. SameShape(branch, branch')  BY <2>1, SaysAdds DEF SameShape
  <2> QED  BY <1>0, <2>1, <2>2, SummaryGoesOn DEF GoesOn
<1>2. CASE M!BuildRequest
  <2>1. /\ turn' = "built" /\ UNCHANGED <<branch, summary>>
        /\ pending' # None => pending' = [branch |-> branch, model |-> model]
    BY <1>2 DEF M!BuildRequest
  <2>2. NothingSince(branch, Len(branch))  BY <1>0 DEF NothingSince
  <2>3. pending' # None => pending'.branch = branch  BY <2>1
  <2> QED  BY <1>0, <2>1, <2>2, <2>3 DEF GoesOn
<1>3. CASE M!SendRequest
  <2>1. /\ turn' = "streaming" /\ UNCHANGED <<branch, summary>> /\ turn = "built"
        /\ \/ latest' = latest /\ latest # None /\ latest.branch = branch
           \/ latest' = None
           \/ latest' = pending /\ pending # None
    BY <1>3 DEF M!SendRequest
  <2>2. NothingSince(branch, Len(branch))  BY <1>0 DEF NothingSince
  <2> QED  BY <1>0, <2>1, <2>2 DEF GoesOn
<1>4. CASE M!Reply
  <2>1. /\ turn' \in {"tools", "idle"} /\ turn = "streaming" /\ M!Says("reply")
        /\ \/ summary' = summary
           \/ latest # None /\ summary'.cap = latest
    BY <1>4 DEF M!Reply, M!MayStart
  <2>2. /\ Len(branch') = Len(branch) + 1 /\ \A i \in 1 .. Len(branch) : branch'[i] = branch[i]
        /\ branch'[Len(branch) + 1].kind = "reply" /\ Len(branch) \in Nat
    BY <1>0, <2>1, SaysAdds
  <2>3. CASE summary' = summary
    <3>1. SameShape(branch, branch')  BY <2>2 DEF SameShape
    <3> QED  BY <2>1, <2>3, <3>1, <1>0, SummaryGoesOn DEF GoesOn
  <2>4. CASE latest # None /\ summary'.cap = latest
    <3>1. Len(latest.branch) \in Nat /\ NothingSince(branch, Len(latest.branch))
      <4>1. latest \in M!Requests  BY <1>0, <2>4 DEF M!TypeOK
      <4>2. latest.branch \in Seq(M!Entries)  BY <4>1 DEF M!Requests
      <4> QED  BY <1>0, <2>1, <2>4, <4>2 DEF GoesOn
    <3>2. M!CutPoint(branch'[Len(branch) + 1])  BY <2>2 DEF M!CutPoint
    <3>3. RepliedTo(branch', Len(latest.branch))
      BY <2>2, <3>1, <3>2 DEF RepliedTo, NothingSince
    <3> QED  BY <2>1, <2>4, <3>3 DEF GoesOn
  <2> QED  BY <2>1, <2>3, <2>4
<1>5. CASE M!ReplyFails  BY <1>0, <1>5 DEF M!ReplyFails, GoesOn
<1>6. CASE M!Navigate \/ M!SelectModel
  <2>1. M!Reset  BY <1>6 DEF M!Navigate, M!SelectModel
  <2>2. pending' = None /\ latest' = None  BY <2>1 DEF M!Reset
  <2>3. summary' = None \/ summary'.result = "failed"
    <3>1. CASE summary # None /\ summary.place = "used"
      <4>1. summary \in M!Summaries /\ summary' = [summary EXCEPT !.result = "failed"]
        BY <1>0, <2>1, <3>1 DEF M!TypeOK, M!Reset
      <4> QED  BY <4>1 DEF M!Summaries
    <3>2. CASE ~ (summary # None /\ summary.place = "used")  BY <2>1, <3>2 DEF M!Reset
    <3> QED  BY <3>1, <3>2
  <2> QED  BY <2>2, <2>3 DEF GoesOn
<1>7. CASE M!Edit
  <2>1. SameShape(branch, branch') /\ Len(branch') = Len(branch)  BY <1>7, EditTells DEF CacheInv
  <2>2. UNCHANGED <<turn, pending, latest, summary>>  BY <1>7 DEF M!Edit
  <2> HIDE DEF M!cache
  <2>3. ASSUME NEW r \in {pending, latest}, r # None, NothingSince(branch, Len(r.branch))
        PROVE  NothingSince(branch', Len(r.branch))
    <3>1. r \in M!Requests  BY <1>0, <2>3 DEF M!TypeOK
    <3>2. Len(r.branch) \in Nat  BY <3>1 DEF M!Requests
    <3>3. \A i \in Len(branch) + 1 .. Len(branch') : branch'[i].covers = {}  BY <1>0, <2>1
    <3> QED  BY <1>0, <2>1, <2>3, <3>2, <3>3, ShapeKeeps
  <2> QED  BY <1>0, <2>1, <2>2, <2>3, SummaryGoesOn DEF GoesOn
<1>8. CASE M!SummaryEnds
  <2>1. PICK r \in {"ready", "failed"} : summary' = [summary EXCEPT !.result = r]
    BY <1>8 DEF M!SummaryEnds
  <2>2. summary \in M!Summaries /\ summary # None /\ summary.result = "running"
    BY <1>0, <1>8 DEF M!SummaryEnds, M!TypeOK
  <2>3. summary'.cap = summary.cap  BY <2>1, <2>2 DEF M!Summaries
  <2>4. UNCHANGED <<branch, turn, pending, latest>>  BY <1>8 DEF M!SummaryEnds
  <2> QED  BY <1>0, <2>2, <2>3, <2>4 DEF GoesOn
<1>9. CASE M!BeginCompact
  <2>1. /\ pending' = None /\ latest' = None /\ UNCHANGED branch
        /\ \/ summary' = None
           \/ summary # None /\ summary' = [summary EXCEPT !.place = "used"]
    BY <1>9 DEF M!BeginCompact
  <2>2. ASSUME summary # None, summary' = [summary EXCEPT !.place = "used"]
        PROVE  summary'.cap = summary.cap /\ summary'.result = summary.result
    <3>1. summary \in M!Summaries  BY <1>0, <2>2 DEF M!TypeOK
    <3> QED  BY <2>2, <3>1 DEF M!Summaries
  <2> QED  BY <1>0, <2>1, <2>2 DEF GoesOn
<1>10. CASE M!UseSummary \/ M!UseOwn
  BY <1>10 DEF M!UseSummary, M!UseOwn, M!Compacted, GoesOn
<1>11. CASE M!LeaveSummary  BY <1>0, <1>11 DEF M!LeaveSummary, GoesOn
<1>12. CASE M!NoCompaction \/ M!WakeChanges \/ M!FireLater \/ M!Fire \/ M!FireStops \/ M!WarmFails
  BY <1>0, <1>12 DEF M!NoCompaction, M!WakeChanges, M!FireLater, M!Fire, M!FireStops, M!WarmFails, GoesOn
<1>13. CASE M!WarmEnds \/ M!LateEnds
  <2>1. M!Note /\ UNCHANGED <<turn, pending, latest, summary>>
    BY <1>13 DEF M!WarmEnds, M!LateEnds, M!Note
  <2>2. /\ SameShape(branch, branch')
        /\ \A i \in Len(branch) + 1 .. Len(branch') : branch'[i].covers = {}
    BY <2>1, NoteAdds DEF SameShape
  <2>3. ASSUME NEW r \in {pending, latest}, r # None, NothingSince(branch, Len(r.branch))
        PROVE  NothingSince(branch', Len(r.branch))
    <3>1. r \in M!Requests  BY <1>0, <2>3 DEF M!TypeOK
    <3>2. Len(r.branch) \in Nat  BY <3>1 DEF M!Requests
    <3> QED  BY <1>0, <2>2, <2>3, <3>2, ShapeKeeps
  <2> QED  BY <1>0, <2>1, <2>2, <2>3, SummaryGoesOn DEF GoesOn
<1>14. CASE UNCHANGED M!vars  BY <1>0, <1>14 DEF M!vars, GoesOn
<1> HIDE DEF GoesOn
<1> QED
  BY <1>1, <1>2, <1>3, <1>4, <1>5, <1>6, <1>7, <1>8, <1>9, <1>10, <1>11, <1>12, <1>13, <1>14
     DEF M!Next

\* The parts of the invariant hold each other up: one theorem for all of them.
LEMMA CacheInvariant == M!Spec => []CacheInv
<1>1. ASSUME CacheInv, [M!Next]_M!vars PROVE CacheInv'
  <2>1. M!TypeOK'
    BY <1>1, ToldKept, OtherTypesKept DEF Tells, OtherTypes, M!TypeOK
  <2> QED  BY <1>1, <2>1, ToldKept, GoesOnKept, QuietKept, WarmAloneKept DEF CacheInv, Tells
<1> QED  BY <1>1, CacheStarts, PTL DEF M!Spec

\* cache-compaction.ts: however the session goes on while a summary is written (replies, steers,
\* a change of the model, edits by other extensions, steps back in the tree), each message of
\* the conversation is in one entry of the branch, in the version it has, for any number of
\* messages.
THEOREM ToldOnceHolds == M!Spec => []ToldOnce
<1>1. CacheInv => ToldOnce  BY DEF CacheInv, ToldOnce
<1> QED  BY <1>1, CacheInvariant, PTL

\* warmer.ts: a warm is never beside the agent's own request, a compaction or the writing of a
\* summary, also when these began later.
THEOREM WarmAloneHolds == M!Spec => []WarmAlone
<1>1. CacheInv => WarmAlone  BY DEF CacheInv, WarmAlone
<1> QED  BY <1>1, CacheInvariant, PTL

------------------------------------------------------------------------------
(* Saves of settings.json (SettingsLock) *)

\* Who works under the lock made the directory that is there.
SaverOwns == \A p \in Procs : K!Holds(p) => lock = {p}

\* A directory that is old, or was when a process looked, is of a process that ended.
OldIsDead ==
    /\ old => \A q \in lock : ~K!Live(q)
    /\ \A p \in Procs : pc[p] = "sweep" => \A q \in seen[p] : ~K!Live(q)

\* What is written is the file with one change more.
ReadIsCurrent == \A p \in Procs : pc[p] = "write" => text[p] = file

\* A change that was written is in the file.
ChangeKept == \A p \in Procs : pc[p] \in {"drop", "done"} => p \in file

Saves == SaverOwns /\ OldIsDead /\ ReadIsCurrent /\ ChangeKept

SavesInv == K!TypeOK /\ (late \/ swept \/ Saves)

\* The invariant holds at first.
LEMMA SavesStart == K!Init => SavesInv
  BY DEF K!Init, SavesInv, Saves, K!TypeOK, SaverOwns, OldIsDead, ReadIsCurrent, ChangeKept, K!Holds

\* Every step keeps the types.
LEMMA SavesTyped == K!TypeOK /\ [K!Next]_(K!vars) => K!TypeOK'
<1> SUFFICES ASSUME K!TypeOK, [K!Next]_(K!vars) PROVE K!TypeOK'
  OBVIOUS
<1> USE DEF K!TypeOK, K!Goto
<1>1. ASSUME NEW p \in Procs, K!MakeDir(p) PROVE K!TypeOK'
  BY <1>1 DEF K!MakeDir
<1>2. ASSUME NEW p \in Procs, K!Stat(p) PROVE K!TypeOK'
  BY <1>2 DEF K!Stat
<1>3. ASSUME NEW p \in Procs, K!Sweep(p) PROVE K!TypeOK'
  BY <1>3 DEF K!Sweep
<1>4. ASSUME NEW p \in Procs, K!GiveUp(p) \/ K!Throws(p) \/ K!Crash(p) PROVE K!TypeOK'
  BY <1>4 DEF K!GiveUp, K!Throws, K!Crash
<1>5. ASSUME NEW p \in Procs, K!Read(p) PROVE K!TypeOK'
  BY <1>5 DEF K!Read
<1>6. ASSUME NEW p \in Procs, K!Write(p) PROVE K!TypeOK'
  BY <1>6 DEF K!Write
<1>7. ASSUME NEW p \in Procs, K!Drop(p) PROVE K!TypeOK'
  BY <1>7 DEF K!Drop
<1>8. CASE K!Age
  BY <1>8 DEF K!Age
<1>9. CASE UNCHANGED K!vars
  BY <1>9 DEF K!vars
<1> QED
  BY <1>1, <1>2, <1>3, <1>4, <1>5, <1>6, <1>7, <1>8, <1>9 DEF K!Next

\* Every step keeps the invariant, action by action.
LEMMA SavesStep == SavesInv /\ [K!Next]_(K!vars) => SavesInv'
<1> SUFFICES ASSUME SavesInv, [K!Next]_(K!vars), ~late', ~swept'
             PROVE Saves'
  BY SavesTyped DEF SavesInv
<1>t. K!TypeOK
  BY DEF SavesInv
<1> USE <1>t DEF SavesInv, Saves, SaverOwns, OldIsDead, ReadIsCurrent, ChangeKept, K!Holds,
              K!Live, K!Goto, K!TypeOK
<1>1. ASSUME NEW p \in Procs, K!MakeDir(p) PROVE Saves'
  BY <1>1 DEF K!MakeDir
<1>2. ASSUME NEW p \in Procs, K!Stat(p) PROVE Saves'
  BY <1>2 DEF K!Stat, K!IsStale
<1>3. ASSUME NEW p \in Procs, K!Sweep(p) PROVE Saves'
  <2>1. /\ pc[p] = "sweep" /\ pc' = [pc EXCEPT ![p] = "take"]
        /\ lock' = {} /\ ~old' /\ UNCHANGED <<file, seen, text>>
        /\ ~late /\ ~swept /\ (lock = {} \/ lock = seen[p])
    BY <1>3 DEF K!Sweep
  <2>2. SaverOwns /\ OldIsDead /\ ReadIsCurrent /\ ChangeKept
    BY <2>1
  <2>3. \A q \in Procs : ~K!Holds(q)
    BY <2>1, <2>2
  <2>4. SaverOwns' /\ ReadIsCurrent' /\ ChangeKept'
    BY <2>1, <2>2, <2>3
  <2>5. OldIsDead'
    BY <2>1, <2>2
  <2> QED
    BY <2>4, <2>5
<1>4. ASSUME NEW p \in Procs, K!GiveUp(p) PROVE Saves'
  BY <1>4 DEF K!GiveUp
<1>5. ASSUME NEW p \in Procs, K!Read(p) PROVE Saves'
  BY <1>5 DEF K!Read
<1>6. ASSUME NEW p \in Procs, K!Write(p) PROVE Saves'
  <2>1. /\ pc[p] = "write" /\ pc' = [pc EXCEPT ![p] = "drop"]
        /\ file' = text[p] \cup {p} /\ UNCHANGED <<lock, old, seen, text>>
        /\ ~late /\ ~swept
    BY <1>6 DEF K!Write
  <2>2. SaverOwns /\ OldIsDead /\ ReadIsCurrent /\ ChangeKept
    BY <2>1
  <2>3. \A q \in Procs : K!Holds(q) => q = p
    BY <2>1, <2>2
  <2>4. SaverOwns' /\ ReadIsCurrent'
    BY <2>1, <2>2, <2>3
  <2>5. ChangeKept'
    BY <2>1, <2>2
  <2>6. OldIsDead'
    BY <2>1, <2>2
  <2> QED
    BY <2>4, <2>5, <2>6
<1>7. ASSUME NEW p \in Procs, K!Throws(p) PROVE Saves'
  BY <1>7 DEF K!Throws
<1>8. ASSUME NEW p \in Procs, K!Drop(p) PROVE Saves'
  BY <1>8 DEF K!Drop
<1>9. ASSUME NEW p \in Procs, K!Crash(p) PROVE Saves'
  BY <1>9 DEF K!Crash
<1>10. CASE K!Age
  BY <1>10 DEF K!Age
<1>11. CASE UNCHANGED K!vars
  BY <1>11 DEF K!vars
<1> QED
  BY <1>1, <1>2, <1>3, <1>4, <1>5, <1>6, <1>7, <1>8, <1>9, <1>10, <1>11 DEF K!Next

\* What every reachable state of the settings and their lock has in common.
THEOREM SavesHold == K!Spec => []SavesInv
  BY SavesStart, SavesStep, PTL DEF K!Spec

\* A change of settings.json stays unless a hold outlasted the stale time or two processes swept
\* one after the other, for any number of processes that save.
THEOREM ChangesAreKept == K!Spec => []ChangesStay
<1>1. SavesInv => ChangesStay
  BY DEF SavesInv, Saves, ChangesStay, K!ChangesStay, ChangeKept
<1> QED
  BY SavesHold, <1>1, PTL

------------------------------------------------------------------------------
(* All parts *)

\* The files of the updater, the folders of its store, what the search found, the saves of
\* settings.json and the conversation have their types, whichever of them moves (cycle.ts, gc.ts,
\* culprits.ts, settings-lock.ts, cache-compaction.ts).
THEOREM PartsTyped == MCSpec => []PartsTypeOK
<1>1. MCInit => Init /\ K!Init /\ C!Init /\ S!Init /\ M!Init
  BY DEF MCInit
<1>2. ASSUME [MCNext]_<<part, vars, lockVars, storeVars, searchVars, cacheVars>>
      PROVE  /\ [Next]_vars /\ [K!Next]_(K!vars) /\ [C!Next]_(C!vars)
             /\ [S!Next]_(S!vars) /\ [M!Next]_(M!vars)
  BY <1>2
     DEF MCNext, vars, machine, ghosts, lockVars, K!vars, storeVars, C!vars, C!store, C!job, C!runs,
         C!collector, C!ghosts, searchVars, S!vars, S!found, cacheVars, M!vars, M!cache, M!session
<1>3. MCSpec => Spec /\ K!Spec /\ C!Spec /\ S!Spec /\ M!Spec
  BY <1>1, <1>2, PTL DEF MCSpec, Spec, K!Spec, C!Spec, S!Spec, M!Spec
<1>4. ASSUME TypeOK /\ WayInv, SavesInv, StoreInv, SearchInv, CacheInv
      PROVE  PartsTypeOK
  <2>1. S!TypeOK
    BY <1>4 DEF SearchInv, SearchTypes, S!TypeOK
  <2> QED  BY <1>4, <2>1 DEF SavesInv, StoreInv, CacheInv, PartsTypeOK
<1> QED
  BY <1>3, <1>4, WayInvariant, SavesHold, StoreHolds, SearchHolds, CacheInvariant, PTL
=============================================================================
