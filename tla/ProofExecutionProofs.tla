------------------------- MODULE ProofExecutionProofs -------------------------
(***************************************************************************)
(* Proofs about ProofExecution, for every set of files and contents, every *)
(* runner and every number of edits.  Classify is judged branch by branch; *)
(* IInv then says what is staged and what has been observed at each point  *)
(* of run_proof.                                                           *)
(***************************************************************************)
EXTENDS ProofExecution, SequenceTheorems, TLAPS

-----------------------------------------------------------------------------
(* What a report is taken for *)

\* The first branch that applies decides.
LEMMA FirstBranch ==
  ASSUME NEW r, NEW o
  PROVE  \E i \in 1..15 :
           /\ Branches(r, o)[i].when
           /\ \A j \in 1..15 : Branches(r, o)[j].when => i <= j
           /\ Classify(r, o) = Branches(r, o)[i].says
<1> DEFINE B == Branches(r, o)
           A == {i \in 1..Len(B) : B[i].when}
<1>1. Len(B) = 15 /\ B[15].when
  BY DEF Branches
<1>2. \E i \in A : \A j \in A : i <= j
  BY <1>1
<1> QED
  BY <1>1, <1>2 DEF Classify

\* The branches one by one: when each applies.
LEMMA BranchesApply ==
  ASSUME NEW r, NEW o
  PROVE  /\ Branches(r, o)[1].when <=> (o.timedOut \/ o.class = "timeout")
         /\ Branches(r, o)[2].when <=> ~o.exited
         /\ Branches(r, o)[3].when <=> (o.class \in DeclaredErrors)
         /\ Branches(r, o)[4].when <=> (o.class \notin {"none", "assertion", "static-diagnostic"})
         /\ Branches(r, o)[5].when <=> (o.exit = 0 /\ o.truncated)
         /\ Branches(r, o)[6].when <=> (o.exit = 0 /\ o.class # "none")
         /\ Branches(r, o)[7].when <=> o.exit = 0
         /\ Branches(r, o)[8].when <=> (r.pytest /\ "collection error" \in o.text)
         /\ Branches(r, o)[9].when <=> (r.pytest /\ o.exit = 5)
         /\ Branches(r, o)[10].when <=> (r.pytest /\ o.exit = 4)
         /\ Branches(r, o)[11].when <=> (r.pytest /\ (o.exit = 3 \/ "error report" \in o.text))
         /\ Branches(r, o)[12].when <=> (r.pytest /\ o.exit # 1)
         /\ Branches(r, o)[13].when <=> ("environment message" \in o.text)
         /\ Branches(r, o)[14].when <=> o.truncated
         /\ Branches(r, o)[15].when <=> TRUE
BY Zenon DEF Branches

\* The branches one by one: what each says.
LEMMA BranchesSay ==
  ASSUME NEW r, NEW o
  PROVE  /\ Branches(r, o)[1].says = Says("timeout", "timeout", "timeout")
         /\ Branches(r, o)[2].says = Says("environment-error", "runner-error", "environment")
         /\ Branches(r, o)[3].says = (IF o.class \in DeclaredErrors THEN ErrorOf(o.class) ELSE Unknown("unknown"))
         /\ Branches(r, o)[4].says = Unknown("unknown")
         /\ Branches(r, o)[5].says = Unknown("truncated-output")
         /\ Branches(r, o)[6].says = Unknown("unknown")
         /\ Branches(r, o)[7].says = Says("pass", "completed", "none")
         /\ Branches(r, o)[8].says = ErrorOf("collection")
         /\ Branches(r, o)[9].says = ErrorOf("no-tests")
         /\ Branches(r, o)[10].says = ErrorOf("usage")
         /\ Branches(r, o)[11].says = ErrorOf("environment")
         /\ Branches(r, o)[12].says = Unknown("unknown")
         /\ Branches(r, o)[13].says = ErrorOf("environment")
         /\ Branches(r, o)[14].says = Unknown("truncated-output")
         /\ Branches(r, o)[15].says = Failure(r, o)
BY Zenon DEF Branches

\* An observation is one its constructor accepts, and says pass or fail exactly if
\* the output shows it.
Sound(r, o, c) ==
  /\ c.actual \in Actual /\ c.matched \in BOOLEAN
  /\ Consistent(c, o)
  /\ c.actual = "pass" <=> Shows(r, o) = "pass"
  /\ c.actual = "fail" <=> Shows(r, o) = "fail"

\* The outputs that show nothing.
LEMMA ShowsNothing ==
  ASSUME NEW r, NEW o,
         \/ o.timedOut \/ ~o.exited \/ o.truncated
         \/ o.class \notin {"none", "assertion", "static-diagnostic"}
         \/ o.exit = 0 /\ o.class # "none"
         \/ o.exit # 0 /\ "environment message" \in o.text
         \/ o.exit # 0 /\ r.pytest
            /\ (o.exit # 1 \/ "collection error" \in o.text \/ "error report" \in o.text)
  PROVE  Shows(r, o) = "nothing"
<1>1. CASE o.timedOut \/ ~o.exited \/ o.truncated
  BY <1>1 DEF Shows
<1>2. CASE o.class \notin {"none", "assertion", "static-diagnostic"}
  BY <1>2 DEF Shows
<1>3. CASE o.exit = 0 /\ o.class # "none"
  BY <1>3 DEF Shows
<1>4. CASE o.exit # 0 /\ "environment message" \in o.text
  BY <1>4 DEF Shows
<1>5. CASE o.exit # 0 /\ r.pytest
           /\ (o.exit # 1 \/ "collection error" \in o.text \/ "error report" \in o.text)
  BY <1>5 DEF Shows
<1> QED
  BY <1>1, <1>2, <1>3, <1>4, <1>5

\* A word that is neither pass nor fail, with the class and the status that go
\* with it, is sound about an output that shows nothing.
LEMMA SaysSound ==
  ASSUME NEW r, NEW o, Shows(r, o) = "nothing",
         NEW actual \in Actual \ {"pass", "fail"}, NEW class \in ClassesOf(actual), NEW status,
         status = IF actual = "timeout" THEN "timeout"
                  ELSE IF ~o.exited THEN "runner-error"
                  ELSE IF actual = "environment-error" THEN "environment-error" ELSE "completed",
         class = "truncated-output" => o.truncated
  PROVE  Sound(r, o, Says(actual, status, class))
<1> DEFINE c == Says(actual, status, class)
<1>1. c.actual = actual /\ c.status = status /\ c.class = class /\ c.matched = FALSE
  BY DEF Says
<1> HIDE DEF c
<1>2. StatusOf(c, o) = status
  BY <1>1 DEF StatusOf
<1>3. Consistent(c, o)
  BY <1>1, <1>2 DEF Consistent
<1> QED
  BY <1>1, <1>3 DEF Sound, c

\* A timeout shows nothing.
LEMMA TimeoutSound ==
  ASSUME NEW r, NEW o, Shows(r, o) = "nothing"
  PROVE  Sound(r, o, Says("timeout", "timeout", "timeout"))
<1>1. "timeout" \in Actual \ {"pass", "fail"} /\ "timeout" \in ClassesOf("timeout")
  BY DEF Actual, ClassesOf
<1> QED
  BY <1>1, SaysSound

\* A command that did not exit shows nothing.
LEMMA RunnerErrorSound ==
  ASSUME NEW r, NEW o, Shows(r, o) = "nothing", ~o.exited
  PROVE  Sound(r, o, Says("environment-error", "runner-error", "environment"))
<1>1. "environment-error" \in Actual \ {"pass", "fail"} /\ "environment" \in ClassesOf("environment-error")
  BY DEF Actual, ClassesOf
<1> QED
  BY <1>1, SaysSound

\* A declared error shows nothing.
LEMMA ErrorSound ==
  ASSUME NEW r, NEW o, Shows(r, o) = "nothing", o.exited, NEW class \in DeclaredErrors
  PROVE  Sound(r, o, ErrorOf(class))
<1>1. CASE class = "environment"
  <2>1. ErrorOf(class) = Says("environment-error", "environment-error", "environment")
    BY <1>1 DEF ErrorOf
  <2>2. "environment-error" \in Actual \ {"pass", "fail"} /\ "environment" \in ClassesOf("environment-error")
    BY DEF Actual, ClassesOf
  <2> QED
    BY <2>1, <2>2, SaysSound
<1>2. CASE class \in {"collection", "collection-error"}
  <2>1. ErrorOf(class) = Says("collection-error", "completed", "collection")
    BY <1>2 DEF ErrorOf
  <2>2. "collection-error" \in Actual \ {"pass", "fail"} /\ "collection" \in ClassesOf("collection-error")
    BY DEF Actual, ClassesOf
  <2> QED
    BY <2>1, <2>2, SaysSound
<1>3. CASE class = "no-tests"
  <2>1. ErrorOf(class) = Says("no-tests", "completed", "no-tests")
    BY <1>3 DEF ErrorOf
  <2>2. "no-tests" \in Actual \ {"pass", "fail"} /\ "no-tests" \in ClassesOf("no-tests")
    BY DEF Actual, ClassesOf
  <2> QED
    BY <2>1, <2>2, SaysSound
<1>4. CASE class \in {"usage", "usage-error"}
  <2>1. ErrorOf(class) = Says("usage-error", "completed", "usage")
    BY <1>4 DEF ErrorOf
  <2>2. "usage-error" \in Actual \ {"pass", "fail"} /\ "usage" \in ClassesOf("usage-error")
    BY DEF Actual, ClassesOf
  <2> QED
    BY <2>1, <2>2, SaysSound
<1> QED
  BY <1>1, <1>2, <1>3, <1>4 DEF DeclaredErrors

\* An unknown failure shows nothing.
LEMMA UnknownSound ==
  ASSUME NEW r, NEW o, Shows(r, o) = "nothing", o.exited,
         NEW class \in {"unknown", "truncated-output"}, class = "truncated-output" => o.truncated
  PROVE  Sound(r, o, Unknown(class))
<1>1. "unknown-failure" \in Actual \ {"pass", "fail"} /\ class \in ClassesOf("unknown-failure")
  BY DEF Actual, ClassesOf
<1> QED
  BY <1>1, SaysSound DEF Unknown

\* A class other than "unknown" is what a failing command shows.
LEMMA FailureClassIs ==
  ASSUME NEW r, NEW o, o.exit \in Int
  PROVE  LET k == FailureClass(r, o)
             failing == IF r.static THEN o.exit > 0
                        ELSE o.exit = 1 /\ "assertion" \in o.text /\ "other exception" \notin o.text
         IN  /\ k \in {"static-diagnostic", "assertion", "unknown"}
             /\ k = "unknown" <=> ~failing
             /\ k # "unknown" => o.exit > 0
             /\ k = "assertion" => o.exit = 1
<1> DEFINE k == FailureClass(r, o)
           asserts == "assertion" \in o.text /\ "other exception" \notin o.text
           fails == o.exit > 0
<1>0. o.exit = 1 => fails
  OBVIOUS
<1>1. k = CASE fails /\ r.static -> "static-diagnostic"
            [] ~(fails /\ r.static) /\ o.exit = 1 /\ "assertion" \in o.text
               /\ "other exception" \notin o.text -> "assertion"
            [] OTHER -> "unknown"
  BY Zenon DEF FailureClass
<1> HIDE DEF k, fails
<1>2. CASE r.static /\ fails
  <2>1. k = "static-diagnostic"
    BY <1>1, <1>2
  <2> QED
    BY <1>2, <2>1 DEF k, fails
<1>3. CASE r.static /\ ~fails
  <2>1. o.exit # 1
    BY <1>0, <1>3
  <2>2. k = "unknown"
    BY <1>1, <1>3, <2>1
  <2> QED
    BY <1>3, <2>2 DEF k, fails
<1>4. CASE ~r.static /\ o.exit = 1 /\ asserts
  <2>1. k = "assertion"
    BY <1>1, <1>4
  <2>2. fails
    BY <1>0, <1>4
  <2> QED
    BY <1>4, <2>1, <2>2 DEF k, fails
<1>5. CASE ~r.static /\ ~(o.exit = 1 /\ asserts)
  <2>1. k = "unknown"
    BY <1>1, <1>5
  <2> QED
    BY <1>5, <2>1 DEF k, fails
<1> QED
  BY <1>2, <1>3, <1>4, <1>5

\* A failing command whose output nothing else explains fails or is unknown.
LEMMA FailureSound ==
  ASSUME NEW r \in Requests, NEW o \in Output,
         o.exited, ~o.timedOut, ~o.truncated, o.exit # 0,
         o.class \in {"none", "assertion", "static-diagnostic"},
         "environment message" \notin o.text,
         r.pytest => /\ o.exit = 1
                     /\ "collection error" \notin o.text /\ "error report" \notin o.text
  PROVE  Sound(r, o, Failure(r, o))
<1> DEFINE k == FailureClass(r, o)
           failing == IF r.static THEN o.exit > 0
                      ELSE o.exit = 1 /\ "assertion" \in o.text /\ "other exception" \notin o.text
           expected == r.patterns = "valid" /\ "expected failure" \in o.text
           c == Failure(r, o)
<1>1. o.exit \in Int /\ r.static \in BOOLEAN
  BY DEF Output, Requests
<1>2. /\ k \in {"static-diagnostic", "assertion", "unknown"}
      /\ k = "unknown" <=> ~failing
      /\ k # "unknown" => o.exit > 0
      /\ k = "assertion" => o.exit = 1
  BY <1>1, FailureClassIs
<1>3. Shows(r, o) = IF failing /\ expected THEN "fail" ELSE "nothing"
  BY DEF Shows
<1> HIDE DEF k, failing, expected
<1>4. CASE k # "unknown" /\ expected
  <2>1. /\ c.actual = "fail" /\ c.status = "completed" /\ c.class = k /\ c.matched = TRUE
    BY <1>4 DEF Failure, k, expected
  <2> HIDE DEF c
  <2>2. Consistent(c, o)
    BY <1>2, <1>4, <2>1 DEF Consistent
  <2>3. Shows(r, o) = "fail"
    BY <1>2, <1>3, <1>4
  <2> QED
    BY <2>1, <2>2, <2>3 DEF Sound, Actual, c
<1>5. CASE ~(k # "unknown" /\ expected)
  <2>1. /\ c.actual = "unknown-failure" /\ c.status = "completed" /\ c.class = k /\ c.matched = FALSE
    BY <1>5 DEF Failure, k, expected
  <2> HIDE DEF c
  <2>2. StatusOf(c, o) = "completed" /\ k \in ClassesOf("unknown-failure")
    BY <1>2, <2>1 DEF StatusOf, ClassesOf
  <2>3. Consistent(c, o)
    BY <1>2, <2>1, <2>2 DEF Consistent
  <2>4. Shows(r, o) = "nothing"
    BY <1>2, <1>3, <1>5
  <2> QED
    BY <2>1, <2>3, <2>4 DEF Sound, Actual, c
<1> QED
  BY <1>4, <1>5

\* An exit of zero without a class passes.
LEMMA PassSound ==
  ASSUME NEW r, NEW o, o.exited, ~o.timedOut, ~o.truncated, o.exit = 0, o.class = "none"
  PROVE  Sound(r, o, Says("pass", "completed", "none"))
<1> DEFINE c == Says("pass", "completed", "none")
<1>1. c.actual = "pass" /\ c.status = "completed" /\ c.class = "none" /\ c.matched = FALSE
  BY DEF Says
<1>2. Shows(r, o) = "pass"
  BY DEF Shows
<1> HIDE DEF c
<1>3. Consistent(c, o)
  BY <1>1 DEF Consistent
<1> QED
  BY <1>1, <1>2, <1>3 DEF Sound, Actual, c

\* Whatever an output is taken for is sound.
LEMMA ClassifySound ==
  ASSUME NEW r \in Requests, NEW o \in Output
  PROVE  Sound(r, o, Classify(r, o))
<1> DEFINE B == Branches(r, o)
           c == Classify(r, o)
<1>0. PICK i \in 1..15 :
        /\ B[i].when
        /\ \A j \in 1..15 : B[j].when => i <= j
        /\ c = B[i].says
  BY FirstBranch
<1>1. \A j \in 1..15 : j < i => ~B[j].when
  BY <1>0
<1> SUFFICES Sound(r, o, c)
  OBVIOUS
<1> HIDE DEF c, B
<1>2. /\ i > 1 => ~B[1].when
      /\ i > 2 => ~B[2].when
      /\ i > 3 => ~B[3].when
      /\ i > 4 => ~B[4].when
      /\ i > 5 => ~B[5].when
      /\ i > 6 => ~B[6].when
      /\ i > 7 => ~B[7].when
      /\ i > 8 => ~B[8].when
      /\ i > 11 => ~B[11].when
      /\ i > 12 => ~B[12].when
      /\ i > 13 => ~B[13].when
      /\ i > 14 => ~B[14].when
  BY <1>1
<1>3. /\ i > 1 => ~(o.timedOut \/ o.class = "timeout")
      /\ i > 2 => o.exited
      /\ i > 3 => o.class \notin DeclaredErrors
      /\ i > 4 => o.class \in {"none", "assertion", "static-diagnostic"}
      /\ i > 5 => ~(o.exit = 0 /\ o.truncated)
      /\ i > 6 => ~(o.exit = 0 /\ o.class # "none")
      /\ i > 7 => o.exit # 0
      /\ i > 8 => ~(r.pytest /\ "collection error" \in o.text)
      /\ i > 11 => ~(r.pytest /\ (o.exit = 3 \/ "error report" \in o.text))
      /\ i > 12 => ~(r.pytest /\ o.exit # 1)
      /\ i > 13 => "environment message" \notin o.text
      /\ i > 14 => ~o.truncated
  <2>1. i > 1 => ~(o.timedOut \/ o.class = "timeout")
    BY <1>2, BranchesApply, Zenon DEF B
  <2>2. i > 2 => o.exited
    BY <1>2, BranchesApply, Zenon DEF B
  <2>3. i > 3 => o.class \notin DeclaredErrors
    BY <1>2, BranchesApply, Zenon DEF B
  <2>4. i > 4 => o.class \in {"none", "assertion", "static-diagnostic"}
    BY <1>2, BranchesApply, Zenon DEF B
  <2>5. i > 5 => ~(o.exit = 0 /\ o.truncated)
    BY <1>2, BranchesApply, Zenon DEF B
  <2>6. i > 6 => ~(o.exit = 0 /\ o.class # "none")
    BY <1>2, BranchesApply, Zenon DEF B
  <2>7. i > 7 => o.exit # 0
    BY <1>2, BranchesApply, Zenon DEF B
  <2>8. i > 8 => ~(r.pytest /\ "collection error" \in o.text)
    BY <1>2, BranchesApply, Zenon DEF B
  <2>9. i > 11 => ~(r.pytest /\ (o.exit = 3 \/ "error report" \in o.text))
    BY <1>2, BranchesApply, Zenon DEF B
  <2>10. i > 12 => ~(r.pytest /\ o.exit # 1)
    BY <1>2, BranchesApply, Zenon DEF B
  <2>11. i > 13 => "environment message" \notin o.text
    BY <1>2, BranchesApply, Zenon DEF B
  <2>12. i > 14 => ~o.truncated
    BY <1>2, BranchesApply, Zenon DEF B
  <2> QED
    BY <2>1, <2>2, <2>3, <2>4, <2>5, <2>6, <2>7, <2>8, <2>9, <2>10, <2>11, <2>12, Zenon
<1>4. CASE i = 1
  <2>1. o.timedOut \/ o.class = "timeout"
    BY <1>0, <1>4, BranchesApply, Zenon DEF B
  <2>2. c = Says("timeout", "timeout", "timeout")
    BY <1>0, <1>4, <2>1, BranchesSay DEF B
  <2>3. Shows(r, o) = "nothing"
    BY <2>1, ShowsNothing
  <2> QED
    BY <2>1, <2>2, <2>3, TimeoutSound
<1>5. CASE i = 2
  <2>1. ~o.exited
    BY <1>0, <1>5, BranchesApply, Zenon DEF B
  <2>2. c = Says("environment-error", "runner-error", "environment")
    BY <1>0, <1>5, <2>1, BranchesSay DEF B
  <2>3. Shows(r, o) = "nothing"
    BY <2>1, ShowsNothing
  <2> QED
    BY <2>1, <2>2, <2>3, RunnerErrorSound
<1>6. CASE i = 3
  <2>1. o.class \in DeclaredErrors
    BY <1>0, <1>6, BranchesApply, Zenon DEF B
  <2>2. c = ErrorOf(o.class)
    BY <1>0, <1>6, <2>1, BranchesSay DEF B
  <2>3. o.exited
    BY <1>3, <1>6
  <2>4. Shows(r, o) = "nothing"
    BY <2>1, <2>3, ShowsNothing DEF DeclaredErrors
  <2> QED
    BY <2>1, <2>2, <2>3, <2>4, ErrorSound
<1>7. CASE i = 4
  <2>1. o.class \notin {"none", "assertion", "static-diagnostic"}
    BY <1>0, <1>7, BranchesApply, Zenon DEF B
  <2>2. c = Unknown("unknown")
    BY <1>0, <1>7, <2>1, BranchesSay DEF B
  <2>3. o.exited
    BY <1>3, <1>7
  <2>4. Shows(r, o) = "nothing"
    BY <2>1, <2>3, ShowsNothing
  <2> QED
    BY <2>1, <2>2, <2>3, <2>4, UnknownSound
<1>8. CASE i = 5
  <2>1. o.exit = 0 /\ o.truncated
    BY <1>0, <1>8, BranchesApply, Zenon DEF B
  <2>2. c = Unknown("truncated-output")
    BY <1>0, <1>8, <2>1, BranchesSay DEF B
  <2>3. o.exited
    BY <1>3, <1>8
  <2>4. Shows(r, o) = "nothing"
    BY <2>1, <2>3, ShowsNothing
  <2> QED
    BY <2>1, <2>2, <2>3, <2>4, UnknownSound
<1>9. CASE i = 6
  <2>1. o.exit = 0 /\ o.class # "none"
    BY <1>0, <1>9, BranchesApply, Zenon DEF B
  <2>2. c = Unknown("unknown")
    BY <1>0, <1>9, <2>1, BranchesSay DEF B
  <2>3. o.exited
    BY <1>3, <1>9
  <2>4. Shows(r, o) = "nothing"
    BY <2>1, <2>3, ShowsNothing
  <2> QED
    BY <2>1, <2>2, <2>3, <2>4, UnknownSound
<1>10. CASE i = 7
  <2>1. o.exit = 0
    BY <1>0, <1>10, BranchesApply, Zenon DEF B
  <2>2. c = Says("pass", "completed", "none")
    BY <1>0, <1>10, BranchesSay DEF B
  <2>3. o.exited /\ ~o.timedOut /\ ~o.truncated /\ o.class = "none"
    BY <1>3, <1>10, <2>1
  <2> QED
    BY <2>1, <2>2, <2>3, PassSound
<1>11. CASE i = 8
  <2>1. r.pytest /\ "collection error" \in o.text
    BY <1>0, <1>11, BranchesApply, Zenon DEF B
  <2>2. c = ErrorOf("collection")
    BY <1>0, <1>11, <2>1, BranchesSay DEF B
  <2>3. i > 2 /\ i > 7
    BY <1>11
  <2>4. o.exited /\ o.exit # 0
    BY <1>3, <2>3, Zenon
  <2>5. Shows(r, o) = "nothing"
    BY <2>1, <2>4, ShowsNothing
  <2> QED
    BY <2>1, <2>2, <2>4, <2>5, ErrorSound DEF DeclaredErrors
<1>12. CASE i = 9
  <2>1. r.pytest /\ o.exit = 5
    BY <1>0, <1>12, BranchesApply, Zenon DEF B
  <2>2. c = ErrorOf("no-tests")
    BY <1>0, <1>12, <2>1, BranchesSay DEF B
  <2>3. i > 2 /\ i > 7
    BY <1>12
  <2>4. o.exited /\ o.exit # 0
    BY <1>3, <2>3, Zenon
  <2>5. Shows(r, o) = "nothing"
    <3>1. o.exit = 5 => o.exit # 1
      OBVIOUS
    <3> QED
      BY <2>1, <2>4, <3>1, ShowsNothing, Zenon
  <2> QED
    BY <2>1, <2>2, <2>4, <2>5, ErrorSound DEF DeclaredErrors
<1>13. CASE i = 10
  <2>1. r.pytest /\ o.exit = 4
    BY <1>0, <1>13, BranchesApply, Zenon DEF B
  <2>2. c = ErrorOf("usage")
    BY <1>0, <1>13, <2>1, BranchesSay DEF B
  <2>3. i > 2 /\ i > 7
    BY <1>13
  <2>4. o.exited /\ o.exit # 0
    BY <1>3, <2>3, Zenon
  <2>5. Shows(r, o) = "nothing"
    <3>1. o.exit = 4 => o.exit # 1
      OBVIOUS
    <3> QED
      BY <2>1, <2>4, <3>1, ShowsNothing, Zenon
  <2> QED
    BY <2>1, <2>2, <2>4, <2>5, ErrorSound DEF DeclaredErrors
<1>14. CASE i = 11
  <2>1. r.pytest /\ (o.exit = 3 \/ "error report" \in o.text)
    BY <1>0, <1>14, BranchesApply, Zenon DEF B
  <2>2. c = ErrorOf("environment")
    BY <1>0, <1>14, <2>1, BranchesSay DEF B
  <2>3. i > 2 /\ i > 7
    BY <1>14
  <2>4. o.exited /\ o.exit # 0
    BY <1>3, <2>3, Zenon
  <2>5. Shows(r, o) = "nothing"
    <3>1. o.exit = 3 => o.exit # 1
      OBVIOUS
    <3> QED
      BY <2>1, <2>4, <3>1, ShowsNothing, Zenon
  <2> QED
    BY <2>1, <2>2, <2>4, <2>5, ErrorSound DEF DeclaredErrors
<1>15. CASE i = 12
  <2>1. r.pytest /\ o.exit # 1
    BY <1>0, <1>15, BranchesApply, Zenon DEF B
  <2>2. c = Unknown("unknown")
    BY <1>0, <1>15, <2>1, BranchesSay DEF B
  <2>3. i > 2 /\ i > 7
    BY <1>15
  <2>4. o.exited /\ o.exit # 0
    BY <1>3, <2>3, Zenon
  <2>5. Shows(r, o) = "nothing"
    BY <2>1, <2>4, ShowsNothing
  <2> QED
    BY <2>1, <2>2, <2>4, <2>5, UnknownSound
<1>16. CASE i = 13
  <2>1. "environment message" \in o.text
    BY <1>0, <1>16, BranchesApply, Zenon DEF B
  <2>2. c = ErrorOf("environment")
    BY <1>0, <1>16, <2>1, BranchesSay DEF B
  <2>3. i > 2 /\ i > 7
    BY <1>16
  <2>4. o.exited /\ o.exit # 0
    BY <1>3, <2>3, Zenon
  <2>5. Shows(r, o) = "nothing"
    BY <2>1, <2>4, ShowsNothing
  <2> QED
    BY <2>1, <2>2, <2>4, <2>5, ErrorSound DEF DeclaredErrors
<1>17. CASE i = 14
  <2>1. o.truncated
    BY <1>0, <1>17, BranchesApply, Zenon DEF B
  <2>2. c = Unknown("truncated-output")
    BY <1>0, <1>17, <2>1, BranchesSay DEF B
  <2>3. i > 2 /\ i > 7
    BY <1>17
  <2>4. o.exited /\ o.exit # 0
    BY <1>3, <2>3, Zenon
  <2>5. Shows(r, o) = "nothing"
    BY <2>1, <2>4, ShowsNothing
  <2> QED
    BY <2>1, <2>2, <2>4, <2>5, UnknownSound
<1>18. CASE i = 15
  <2>1. i > 1 /\ i > 2 /\ i > 4 /\ i > 7 /\ i > 8 /\ i > 11 /\ i > 12 /\ i > 13 /\ i > 14
    BY <1>18
  <2>2. c = Failure(r, o)
    BY <1>0, <1>18, BranchesSay DEF B
  <2>3. /\ ~(o.timedOut \/ o.class = "timeout") /\ o.exited /\ ~o.truncated /\ o.exit # 0
        /\ o.class \in {"none", "assertion", "static-diagnostic"}
        /\ "environment message" \notin o.text
    BY <1>3, <2>1, Zenon
  <2>4. r.pytest => /\ o.exit = 1
                    /\ "collection error" \notin o.text /\ "error report" \notin o.text
    BY <1>3, <2>1, Zenon
  <2> QED
    BY <2>2, <2>3, <2>4, FailureSound
<1> QED
  BY <1>4, <1>5, <1>6, <1>7, <1>8, <1>9, <1>10, <1>11, <1>12, <1>13, <1>14, <1>15, <1>16, <1>17, <1>18

\* The first element of a sequence that has one.
LEMMA SeqFirst ==
  ASSUME NEW S, NEW s \in Seq(S), Len(s) > 0
  PROVE  s # << >> /\ s[1] \in S
OBVIOUS

\* Exceptions of a runner are outputs too.
LEMMA ReportsAreOutputs ==
  ASSUME NEW r \in Requests
  PROVE  Reports(r) \subseteq Output
<1>1. Late \in Output
  BY OutputAssumption DEF Late, Output
<1>2. Broken \in Output
  BY <1>1, OutputAssumption DEF Broken, Output
<1>3. r.runner \in DOMAIN Outputs
  BY DEF Requests
<1> QED
  BY <1>1, <1>2, <1>3, OutputAssumption DEF Reports

-----------------------------------------------------------------------------
(* Relations *)

\* A relation has two revisions.
LEMMA RelationsType ==
  ASSUME NEW r \in Requests
  PROVE  Relations[r.relation] \in Seq(Revision) /\ Len(Relations[r.relation]) = 2
<1>1. r.relation \in {"regression", "repair", "feature", "counterexample"}
  BY DEF Requests, Relations
<1>2. ASSUME NEW first \in Revision, NEW second \in Revision
      PROVE  <<first, second>> \in Seq(Revision) /\ Len(<<first, second>>) = 2
  OBVIOUS
<1>3. {"base", "head", "fixed", "control"} \subseteq Revision
  BY DEF Revision
<1>4. CASE r.relation \in {"regression", "feature"}
  <2>1. Relations[r.relation] = <<"base", "head">>
    BY <1>4 DEF Relations
  <2> QED
    BY <1>2, <1>3, <2>1
<1>5. CASE r.relation = "repair"
  <2>1. Relations[r.relation] = <<"head", "fixed">>
    BY <1>5 DEF Relations
  <2> QED
    BY <1>2, <1>3, <2>1
<1>6. CASE r.relation = "counterexample"
  <2>1. Relations[r.relation] = <<"control", "head">>
    BY <1>6 DEF Relations
  <2> QED
    BY <1>2, <1>3, <2>1
<1> QED
  BY <1>1, <1>4, <1>5, <1>6

\* An intent declares two revisions, and perhaps a mutant.
LEMMA DeclaredType ==
  ASSUME NEW r \in Requests
  PROVE  Declared(r) \in Seq(Revision) /\ Len(Declared(r)) \in {2, 3}
<1> DEFINE R == Relations[r.relation]
<1>1. R \in Seq(Revision) /\ Len(R) = 2
  BY RelationsType
<1>2. "mutant" \in Revision
  BY DEF Revision
<1>3. Declared(r) = IF r.mutation THEN Append(R, "mutant") ELSE R
  BY DEF Declared
<1> HIDE DEF R
<1>4. /\ Append(R, "mutant") \in Seq(Revision)
      /\ Len(Append(R, "mutant")) = Len(R) + 1
  BY <1>1, <1>2, AppendProperties, Zenon
<1> QED
  BY <1>1, <1>3, <1>4

\* Every declared revision is expected to pass or to fail.
LEMMA ExpectationIs ==
  ASSUME NEW r \in Requests, NEW v \in Observed(r)
  PROVE  Expectation(r, v) \in {"pass", "fail"}
<1> DEFINE R == Relations[r.relation]
<1>1. r.relation \in {"regression", "repair", "feature", "counterexample"}
  BY DEF Requests, Relations
<1>2. \A i \in 1..2 : Outcomes[r.relation][i] \in {"pass", "fail"}
  <2>1. /\ Outcomes["regression"] = <<"pass", "fail">>
        /\ Outcomes["repair"] = <<"fail", "pass">>
        /\ Outcomes["feature"] = <<"fail", "pass">>
        /\ Outcomes["counterexample"] = <<"pass", "fail">>
    BY DEF Outcomes
  <2> QED
    BY <1>1, <2>1
<1>3. R \in Seq(Revision) /\ Len(R) = 2
  BY RelationsType
<1>4. CASE v = "mutant"
  BY <1>4 DEF Expectation
<1>5. CASE v # "mutant"
  <2>1. PICK i \in 1..Len(Declared(r)) : v = Declared(r)[i]
    BY DEF Observed
  <2>2. i \in 1..2 /\ R[i] = v
    BY <1>3, <1>5, <2>1 DEF Declared
  <2> QED
    BY <1>2, <1>5, <2>2 DEF Expectation
<1> QED
  BY <1>4, <1>5

-----------------------------------------------------------------------------
(* The inductive invariant *)

\* Hashing and staging are at a revision.
LeftInv == pc \in {"hash", "copy", "overlay", "run", "rehash"} => left # << >>

\* Nothing is observed before the manifest is frozen.
FreshInv == pc \in {"start", "manifest"} => \A v \in Revision : seen[v] = Nothing

\* What is laid over a workspace is the manifest, as far as it has got.
OverlayInv ==
  pc = "overlay" => \A f \in File \ scan.list : scan.read[f] = manifest[f]

\* The workspace holds what was hashed, then the overlay on top of it.
StageInv ==
  /\ pc = "overlay" => workspace = Hash(left[1])
  /\ pc = "run" => workspace = Over(manifest, Hash(left[1]))

\* An observation says pass or fail exactly if the output shows it.
ShownInv ==
  \A v \in Revision :
    /\ seen[v].actual = "pass" <=> shown[v] = "pass"
    /\ seen[v].actual = "fail" <=> shown[v] = "fail"

\* A verdict is the decision over the observations that are there at the end.
VerdictInv ==
  verdict # "none" =>
    pc \in {"sign", "published", "raised"} /\ verdict = Decide(request, seen)

IInv ==
  /\ TypeOK /\ LeftInv
  /\ FreshInv /\ OverlayInv /\ StageInv /\ ObservedTreeIsDeclared
  /\ ObservationsAccepted /\ ShownInv /\ VerdictInv

\* The revisions that are left, after the first of them too, are an end of the
\* declared ones.
LEMMA LeftIs ==
  ASSUME TypeOK
  PROVE  /\ left \in Seq(Revision)
         /\ left # << >> => left[1] \in Revision /\ Len(left) > 0
         /\ left # << >> => \E n \in 0..3 : Tail(left) = SubSeq(Declared(request), n + 1, Len(Declared(request)))
<1> DEFINE D == Declared(request)
<1>1. D \in Seq(Revision) /\ Len(D) \in {2, 3}
  BY DeclaredType, RequestAssumption DEF TypeOK
<1>2. PICK n \in 0..3 : left = SubSeq(D, n + 1, Len(D))
  BY DEF TypeOK
<1> HIDE DEF D
<1>3. left \in Seq(Revision) /\ Len(left) = IF n + 1 <= Len(D) THEN Len(D) - n ELSE 0
  BY <1>1, <1>2, SubSeqProperties
<1>4. left # << >> => left[1] \in Revision /\ Len(left) > 0
  BY <1>3
<1>5. ASSUME left # << >>
      PROVE  \E m \in 0..3 : Tail(left) = SubSeq(D, m + 1, Len(D))
  <2>1. n + 1 <= Len(D)
    BY <1>1, <1>3, <1>5
  <2>2. Tail(left) = SubSeq(D, n + 2, Len(D))
    BY <1>1, <1>2, <2>1, HeadTailOfSubSeq
  <2>3. n + 1 \in 0..3 /\ (n + 1) + 1 = n + 2
    BY <1>1, <1>2, <2>1
  <2> QED
    BY <2>2, <2>3
<1> QED
  BY <1>3, <1>4, <1>5 DEF D

-----------------------------------------------------------------------------
(* Every step keeps it *)

\* It holds at the start.
LEMMA InitIInv ==
  ASSUME Init
  PROVE  IInv
<1> USE DEF Init
<1>1. request \in Requests /\ Source \in [Root -> Tree]
  BY RequestAssumption, SourceAssumption
<1>2. left = SubSeq(Declared(request), 3 + 1, Len(Declared(request)))
  <2>1. Len(Declared(request)) \in {2, 3}
    BY <1>1, DeclaredType
  <2>2. ASSUME NEW n \in {2, 3}
        PROVE  SubSeq(Declared(request), 3 + 1, n) = << >>
    BY SubSeqEmpty
  <2> QED
    BY <2>1, <2>2
<1>3. Empty \in Tree
  BY DEF Empty, Tree, Content
<1>4. TypeOK
  BY <1>1, <1>2, <1>3, ContentAssumption
     DEF TypeOK, Ends, Walking, Root, Nothing
<1>5. LeftInv /\ FreshInv /\ OverlayInv /\ StageInv
  BY DEF LeftInv, FreshInv, OverlayInv, StageInv
<1>6. ObservedTreeIsDeclared /\ ObservationsAccepted
  BY DEF ObservedTreeIsDeclared, ObservationsAccepted
<1>7. ShownInv /\ VerdictInv
  BY DEF ShownInv, VerdictInv, Nothing
<1> QED
  BY <1>4, <1>5, <1>6, <1>7 DEF IInv

\* The types.
LEMMA NextType ==
  ASSUME TypeOK, LeftInv, pc # "refused", [Next]_vars
  PROVE  TypeOK' /\ LeftInv'
<1> DEFINE D == Declared(request)
           LeftOK(l) == \E n \in 0..3 : l = SubSeq(D, n + 1, Len(D))
           Scans == [root : Root, list : SUBSET File, read : Tree]
<1>1. D \in Seq(Revision) /\ Len(D) \in {2, 3}
  BY DeclaredType, RequestAssumption DEF TypeOK
<1>2. /\ left \in Seq(Revision)
      /\ left # << >> => left[1] \in Revision /\ Len(left) > 0 /\ LeftOK(Tail(left))
  BY LeftIs
<1>3. \A root \in Root : Walk(root) \in Scans
  BY DEF TypeOK, Walk, Files, Empty, Tree, Content
<1>4. WalkManifest \in Scans
  BY DEF TypeOK, WalkManifest, Files, Empty, Tree, Content, Root
<1>5. LeftOK(D) /\ D # << >> /\ D[1] \in Revision
  <2>1. D = SubSeq(D, 0 + 1, Len(D))
    BY <1>1, SubSeqFull
  <2>2. D # << >> /\ D[1] \in Revision
    BY <1>1
  <2>3. 0 \in 0..3
    OBVIOUS
  <2> QED
    BY <2>1, <2>2, <2>3
<1>6. Revision \subseteq Root
  BY DEF Root
<1>7. CASE Admit
  BY <1>3, <1>7 DEF Admit, TypeOK, LeftInv, Walking, Ends, disk, evidence, Root
<1>8. CASE ReadFile
  <2> DEFINE content == tree[scan.root][Next1]
  <2>1. Next1 \in File => content \in Content
    BY DEF TypeOK, Tree
  <2> HIDE DEF content
  <2>2. [scan.read EXCEPT ![Next1] = content] \in Tree
    BY <2>1 DEF TypeOK, Tree
  <2>3. scan' = [root |-> scan.root, list |-> scan.list \ {Next1},
                 read |-> [scan.read EXCEPT ![Next1] = content]]
    BY <1>8 DEF ReadFile, TypeOK, content
  <2>4. scan' \in Scans
    BY <2>2, <2>3 DEF TypeOK
  <2> QED
    BY <1>8, <2>4 DEF ReadFile, TypeOK, LeftInv, Walking, Ends, disk, evidence
<1>9. CASE FreezeManifest
  <2>1. left' = D /\ scan' = Walk(D[1])
    BY <1>9 DEF FreezeManifest
  <2>2. LeftOK(left') /\ left' # << >> /\ scan' \in Scans
    BY <1>3, <1>5, <1>6, <2>1
  <2> QED
    BY <1>9, <2>2 DEF FreezeManifest, TypeOK, LeftInv, Walking, Ends, disk, evidence
<1>10. CASE HashRevision
  <2>1. LeftOK(left') /\ left' # << >> /\ scan' \in Scans
    <3>1. CASE Len(left) > 1
      <4>1. left' = Tail(left) /\ scan' = Walk(left'[1])
        BY <1>10, <3>1 DEF HashRevision
      <4>2. left # << >> /\ Tail(left) \in Seq(Revision) /\ Len(Tail(left)) > 0
        BY <1>2, <3>1
      <4>3. Tail(left) # << >> /\ Tail(left)[1] \in Revision
        BY <4>2, SeqFirst
      <4> QED
        BY <1>2, <1>3, <1>6, <4>1, <4>2, <4>3
    <3>2. CASE ~(Len(left) > 1)
      <4>1. left' = D /\ scan' = Walk(D[1])
        BY <1>10, <3>2 DEF HashRevision
      <4> QED
        BY <1>3, <1>5, <1>6, <4>1
    <3> QED
      BY <3>1, <3>2
  <2> QED
    BY <1>10, <2>1 DEF HashRevision, TypeOK, LeftInv, Walking, Ends, disk, evidence
<1>11. CASE CopyRevision
  BY <1>4, <1>11 DEF CopyRevision, Walked, TypeOK, LeftInv, Walking, Ends, disk, evidence
<1>12. CASE ApplyOverlay
  <2>1. workspace' \in Tree
    BY <1>12 DEF ApplyOverlay, Over, TypeOK, Tree
  <2> QED
    BY <1>12, <2>1 DEF ApplyOverlay, Walked, TypeOK, LeftInv, Walking, Ends, disk, evidence
<1>13. CASE Run
  <2>1. PICK o \in Reports(request) :
          LET c == Classify(request, o)
          IN  /\ seen' = [seen EXCEPT ![left[1]] = [actual |-> c.actual, matched |-> c.matched]]
              /\ shown' = [shown EXCEPT ![left[1]] = Shows(request, o)]
              /\ pc' = IF Consistent(c, o) THEN "rehash" ELSE "refused"
    BY <1>13 DEF Run
  <2> DEFINE c == Classify(request, o)
  <2>2. Sound(request, o, c)
    BY ClassifySound, ReportsAreOutputs, RequestAssumption DEF TypeOK
  <2> HIDE DEF c
  <2>3. c.actual \in Actual /\ c.matched \in BOOLEAN /\ pc' = "rehash"
    BY <2>1, <2>2 DEF Sound, c
  <2>4. Shows(request, o) \in {"pass", "fail", "nothing"}
    BY DEF Shows
  <2>5. left # << >> /\ left[1] \in Revision
    BY <1>2, <1>13 DEF Run, LeftInv
  <2>6. scan' \in Scans
    BY <1>3, <1>6, <1>13, <2>5 DEF Run
  <2>7. seen' \in [Revision -> [actual : Actual \cup {"none"}, matched : BOOLEAN]]
    BY <2>1, <2>3 DEF TypeOK, c
  <2>8. shown' \in [Revision -> {"pass", "fail", "nothing"}]
    BY <2>1, <2>4 DEF TypeOK
  <2>9. ran' \in [Revision -> Tree]
    BY <1>13 DEF Run, TypeOK
  <2> QED
    BY <1>13, <2>3, <2>5, <2>6, <2>7, <2>8, <2>9 DEF Run, TypeOK, LeftInv, Walking, Ends, disk
<1>14. CASE CheckSource
  <2>1. left # << >> /\ left' = Tail(left) /\ Tail(left) \in Seq(Revision)
    BY <1>2, <1>14 DEF CheckSource, Walked, LeftInv
  <2>2. CASE Tail(left) # << >>
    <3>1. Tail(left)[1] \in Revision
      BY <2>1, <2>2
    <3>2. scan' \in Scans
      BY <1>3, <1>6, <1>14, <2>1, <2>2, <3>1 DEF CheckSource
    <3> QED
      BY <1>2, <1>14, <2>1, <2>2, <3>2 DEF CheckSource, TypeOK, LeftInv, Walking, Ends, disk, evidence
  <2>3. CASE Tail(left) = << >>
    BY <1>2, <1>14, <2>1, <2>3 DEF CheckSource, TypeOK, LeftInv, Walking, Ends, disk, evidence
  <2> QED
    BY <2>2, <2>3
<1>15. CASE MakeCapsule
  <2>1. verdict' \in {"confirmed", "not-reproduced", "inconclusive"}
    BY <1>15 DEF MakeCapsule, Decide
  <2> QED
    BY <1>15, <2>1 DEF MakeCapsule, TypeOK, LeftInv, Walking, Ends, disk, evidence, staging
<1>16. CASE Publish
  BY <1>16 DEF Publish, TypeOK, LeftInv, Walking, Ends, disk, evidence, staging
<1>17. CASE Raise
  BY <1>17 DEF Raise, TypeOK, LeftInv, Walking, Ends, disk, evidence, staging
<1>18. CASE Edit
  <2>1. PICK root \in Root, f \in File, x \in Content : tree' = [tree EXCEPT ![root][f] = x]
    <3>1. Observed(request) \cup {"overlay"} \subseteq Root
      BY <1>1 DEF Observed, Root
    <3> QED
      BY <1>18, <3>1 DEF Edit
  <2>2. tree' \in [Root -> Tree]
    BY <2>1 DEF TypeOK, Tree
  <2>3. edits' \in 0..MaxEdits
    BY <1>18, ContentAssumption DEF Edit, TypeOK
  <2> QED
    BY <1>18, <2>2, <2>3 DEF Edit, TypeOK, LeftInv, evidence, staging
<1>19. CASE UNCHANGED vars
  BY <1>19 DEF vars, TypeOK, LeftInv, disk, evidence, staging
<1> QED
  BY <1>7, <1>8, <1>9, <1>10, <1>11, <1>12, <1>13, <1>14, <1>15, <1>16, <1>17, <1>18, <1>19
     DEF Next, Step, Done

\* What is staged and run.
LEMMA NextStaging ==
  ASSUME TypeOK, LeftInv, FreshInv, OverlayInv, StageInv, ObservedTreeIsDeclared, [Next]_vars
  PROVE  FreshInv' /\ OverlayInv' /\ StageInv' /\ ObservedTreeIsDeclared'
<1> USE DEF FreshInv, OverlayInv, StageInv, ObservedTreeIsDeclared
<1>1. CASE Admit
  BY <1>1 DEF Admit, evidence
<1>2. CASE ReadFile
  <2> DEFINE content == tree[scan.root][Next1]
  <2>1. /\ scan'.list = scan.list \ {Next1}
        /\ \A f \in File : scan'.read[f] = IF f = Next1 THEN content ELSE scan.read[f]
        /\ pc = "overlay" => content = manifest[Next1]
    BY <1>2 DEF ReadFile, Readable, TypeOK, Tree
  <2>2. OverlayInv'
    BY <1>2, <2>1 DEF ReadFile
  <2> QED
    BY <1>2, <2>2 DEF ReadFile, evidence
<1>3. CASE FreezeManifest
  BY <1>3 DEF FreezeManifest, Walked, evidence
<1>4. CASE HashRevision
  BY <1>4 DEF HashRevision, Walked, evidence
<1>5. CASE CopyRevision
  <2>1. \A f \in File \ Files(manifest) : Empty[f] = manifest[f]
    BY DEF Files, Empty
  <2> QED
    BY <1>5, <2>1 DEF CopyRevision, Walked, Staged, WalkManifest, evidence
<1>6. CASE ApplyOverlay
  <2>1. scan.read = manifest
    BY <1>6 DEF ApplyOverlay, Walked, TypeOK, Tree
  <2>2. workspace' = Over(manifest, Hash(left[1]))
    BY <1>6, <2>1 DEF ApplyOverlay, Walked
  <2> QED
    BY <1>6, <2>2 DEF ApplyOverlay, Walked, evidence, Hash
<1>7. CASE Run
  <2>1. /\ pc = "run" /\ pc' \in {"rehash", "refused"} /\ manifest' = manifest
        /\ ran' = [ran EXCEPT ![left[1]] = Over(manifest, Hash(left[1]))]
        /\ \A v \in Revision : v # left[1] => seen'[v] = seen[v]
    BY <1>7 DEF Run, TypeOK
  <2>2. \A v \in Revision : ran'[v] = IF v = left[1] THEN Over(manifest, Hash(v)) ELSE ran[v]
    BY <2>1 DEF TypeOK
  <2>3. ObservedTreeIsDeclared'
    BY <2>1, <2>2 DEF Over, Hash
  <2> QED
    BY <2>1, <2>3
<1>8. CASE CheckSource
  BY <1>8 DEF CheckSource, Walked, evidence
<1>9. CASE MakeCapsule
  BY <1>9 DEF MakeCapsule, evidence, staging
<1>10. CASE Publish
  BY <1>10 DEF Publish, evidence, staging
<1>11. CASE Raise
  BY <1>11 DEF Raise, evidence, staging
<1>12. CASE Edit
  BY <1>12 DEF Edit, evidence, staging
<1>13. CASE UNCHANGED vars
  BY <1>13 DEF vars, evidence, staging
<1> QED
  BY <1>1, <1>2, <1>3, <1>4, <1>5, <1>6, <1>7, <1>8, <1>9, <1>10, <1>11, <1>12, <1>13
     DEF Next, Step, Done

\* What is observed and decided.
LEMMA NextVerdict ==
  ASSUME TypeOK, LeftInv, ObservationsAccepted, ShownInv, VerdictInv, [Next]_vars
  PROVE  ObservationsAccepted' /\ ShownInv' /\ VerdictInv'
<1> USE DEF ObservationsAccepted, ShownInv, VerdictInv
<1>1. CASE Admit
  BY <1>1 DEF Admit, evidence
<1>2. CASE ReadFile
  BY <1>2 DEF ReadFile, evidence
<1>3. CASE FreezeManifest
  BY <1>3 DEF FreezeManifest, Walked, evidence
<1>4. CASE HashRevision
  BY <1>4 DEF HashRevision, Walked, evidence
<1>5. CASE CopyRevision
  BY <1>5 DEF CopyRevision, Walked, evidence
<1>6. CASE ApplyOverlay
  BY <1>6 DEF ApplyOverlay, Walked, evidence
<1>7. CASE Run
  <2>1. PICK o \in Reports(request) :
          LET c == Classify(request, o)
          IN  /\ seen' = [seen EXCEPT ![left[1]] = [actual |-> c.actual, matched |-> c.matched]]
              /\ shown' = [shown EXCEPT ![left[1]] = Shows(request, o)]
              /\ pc' = IF Consistent(c, o) THEN "rehash" ELSE "refused"
    BY <1>7 DEF Run
  <2> DEFINE c == Classify(request, o)
  <2>2. Sound(request, o, c)
    BY ClassifySound, ReportsAreOutputs, RequestAssumption DEF TypeOK
  <2>3. /\ seen' = [seen EXCEPT ![left[1]] = [actual |-> c.actual, matched |-> c.matched]]
        /\ shown' = [shown EXCEPT ![left[1]] = Shows(request, o)]
    BY <2>1
  <2> HIDE DEF c
  <2>4. pc' = "rehash" /\ verdict = "none" /\ verdict' = verdict
    BY <1>7, <2>1, <2>2 DEF Run, Sound, c
  <2>5. \A v \in Revision : /\ seen'[v].actual = IF v = left[1] THEN c.actual ELSE seen[v].actual
                            /\ shown'[v] = IF v = left[1] THEN Shows(request, o) ELSE shown[v]
    <3>1. \A v \in Revision : seen'[v] = IF v = left[1] THEN [actual |-> c.actual, matched |-> c.matched]
                                       ELSE seen[v]
      BY <2>3 DEF TypeOK
    <3>2. \A v \in Revision : shown'[v] = IF v = left[1] THEN Shows(request, o) ELSE shown[v]
      BY <2>3 DEF TypeOK
    <3> QED
      BY <3>1, <3>2
  <2>6. ShownInv'
    BY <2>2, <2>5 DEF Sound
  <2> QED
    BY <2>4, <2>6
<1>8. CASE CheckSource
  BY <1>8 DEF CheckSource, Walked, evidence
<1>9. CASE MakeCapsule
  BY <1>9 DEF MakeCapsule, evidence, disk
<1>10. CASE Publish
  BY <1>10 DEF Publish, evidence
<1>11. CASE Raise
  <2>1. pc \in {"start", "run", "sign"} \cup Walking
    BY <1>11 DEF Raise, MustRaise, MayRaise, Walked, Walking
  <2> QED
    BY <1>11, <2>1 DEF Raise, evidence
<1>12. CASE Edit
  BY <1>12 DEF Edit, evidence
<1>13. CASE UNCHANGED vars
  BY <1>13 DEF vars, evidence
<1> QED
  BY <1>1, <1>2, <1>3, <1>4, <1>5, <1>6, <1>7, <1>8, <1>9, <1>10, <1>11, <1>12, <1>13
     DEF Next, Step, Done

\* It always holds.
LEMMA SpecIInv == Spec => []IInv
<1>1. Init => IInv
  BY InitIInv
<1>2. IInv /\ [Next]_vars => IInv'
  BY NextType, NextStaging, NextVerdict DEF IInv, ObservationsAccepted
<1> QED
  BY <1>1, <1>2, PTL DEF Spec

-----------------------------------------------------------------------------
(* Theorems *)

\* Type correctness of run_proof, for any files, outputs and requests.
THEOREM ProofRunType == Spec => []TypeOK
BY SpecIInv, PTL DEF IInv

\* Whoever edits the roots however often, every observation was made in the tree
\* that the intent declares under the overlay that the manifest lists.
THEOREM ProofRunTree == Spec => []ObservedTreeIsDeclared
BY SpecIInv, PTL DEF IInv

\* Whatever a runner reports, _classify gives an observation that its own
\* constructor accepts.
THEOREM ProofRunAccepted == Spec => []ObservationsAccepted
BY SpecIInv, PTL DEF IInv

\* A capsule is confirmed exactly if every output shows what its relation expects,
\* and inconclusive exactly if some output shows nothing.
THEOREM ProofRunVerdict == Spec => []VerdictIsEarned
<1>1. IInv => VerdictIsEarned
  <2> SUFFICES ASSUME IInv, verdict # "none"
               PROVE  /\ verdict = "confirmed" <=> \A v \in Observed(request) : shown[v] = Expectation(request, v)
                      /\ verdict = "inconclusive" <=> \E v \in Observed(request) : shown[v] = "nothing"
    BY DEF VerdictIsEarned
  <2> DEFINE O == Observed(request)
  <2>1. request \in Requests /\ verdict = Decide(request, seen)
    BY RequestAssumption DEF IInv, TypeOK, VerdictInv
  <2>2. \A v \in O : v \in Revision
    BY <2>1, DeclaredType DEF Observed
  <2>3. \A v \in O : Expectation(request, v) \in {"pass", "fail"}
    BY <2>1, ExpectationIs
  <2>4. \A v \in O : /\ shown[v] \in {"pass", "fail", "nothing"}
                     /\ seen[v].actual = "pass" <=> shown[v] = "pass"
                     /\ seen[v].actual = "fail" <=> shown[v] = "fail"
    BY <2>2 DEF IInv, TypeOK, ShownInv
  <2> HIDE DEF O
  <2>5. CASE \E v \in O : seen[v].actual \notin {"pass", "fail"}
    <3>1. verdict = "inconclusive"
      BY <2>1, <2>3, <2>5 DEF Decide, O
    <3>2. PICK v \in O : shown[v] = "nothing"
      BY <2>4, <2>5
    <3> QED
      BY <2>3, <3>1, <3>2 DEF O
  <2>6. CASE \A v \in O : seen[v].actual \in {"pass", "fail"}
    <3>1. verdict = IF \A v \in O : seen[v].actual = Expectation(request, v)
                    THEN "confirmed" ELSE "not-reproduced"
      BY <2>1, <2>6 DEF Decide, O
    <3>2. \A v \in O : shown[v] = seen[v].actual
      BY <2>4, <2>6
    <3> QED
      BY <2>6, <3>1, <3>2 DEF O
  <2> QED
    BY <2>5, <2>6
<1> QED
  BY <1>1, SpecIInv, PTL
==============================================================================
