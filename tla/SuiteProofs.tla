----------------------------- MODULE SuiteProofs -----------------------------
(***************************************************************************)
(* What the evidence and the verdict of a parallel run say, for every      *)
(* number of workers and tests and every selection.  The strengthening     *)
(* follows one test through its attempts: it has not started, it is under  *)
(* way on one worker, or it has finished.                                  *)
(***************************************************************************)
EXTENDS Suite, TLAPS

(* The workers a test is running on; there is never more than one.          *)
Holders(t) == {w \in Workers : worker[w].pc \in Running /\ worker[w].test = t}

NotStarted(t) ==
  /\ Holders(t) = {}
  /\ t \notin dirs /\ files[t] = {} /\ t \notin logless
  /\ \A category \in {"passed", "failed", "error", "rerun"} : ~Counted(t, category)

(* An attempt under way: no verdict yet, a rerun counted for every attempt  *)
(* but the first, the log where the teardown will look for it.              *)
UnderWay(t, w) ==
  /\ ~Counted(t, "failed") /\ ~Counted(t, "error")
  /\ attempts[t] > 1 => Counted(t, "rerun")
  /\ worker[w].pc \in {"call", "contexts", "settle"} => "test.log" \in files[t]
  /\ worker[w].pc \in {"record", "report"} =>
       IF test_failed(w) THEN t \in logless \/ "test.log" \in files[t] ELSE t \notin dirs

Finished(t) ==
  /\ attempts[t] > 1 => Counted(t, "rerun")
  /\ \/ /\ Counted(t, "failed") \/ Counted(t, "error")
        /\ t \in logless \/ "test.log" \in files[t]
     \/ Counted(t, "passed") /\ ~Counted(t, "failed") /\ t \notin dirs

TestInv(t) ==
  /\ \A v, w \in Holders(t) : v = w
  /\ attempts[t] = 0 => NotStarted(t)
  /\ \A w \in Holders(t) : UnderWay(t, w)
  /\ attempts[t] > 0 /\ Holders(t) = {} => Finished(t)

EvidenceInv ==
  /\ EvidenceTypeOK
  /\ \A w \in Workers : worker[w].pc \in Running => worker[w].test \in Tests
  /\ \A t \in Tests : TestInv(t)
  /\ \A t \in todo \cup skips : attempts[t] = 0

-----------------------------------------------------------------------------
(* Whatever happens elsewhere, a test that no step is about keeps its       *)
(* invariant; pruning may take its empty directory.                         *)
LEMMA OtherTests ==
  ASSUME EvidenceInv, NEW w \in Workers, NEW x, worker' = [worker EXCEPT ![w] = x],
         NEW u \in Tests,
         worker[w].pc \in Running => worker[w].test # u,
         x.pc \in Running => x.test # u,
         attempts'[u] = attempts[u], files'[u] = files[u], u \in logless' <=> u \in logless,
         \A category : Counted(u, category)' <=> Counted(u, category),
         u \in dirs' => u \in dirs
  PROVE  TestInv(u)'
  <1>1. worker \in [Workers -> Worker] /\ TestInv(u)
    BY DEF EvidenceInv, EvidenceTypeOK
  <1>2. w \notin Holders(u) /\ \A v \in Workers \ {w} : worker'[v] = worker[v]
    BY <1>1 DEF Holders
  <1>3. worker'[w] = x
    BY <1>1
  <1>4. Holders(u)' = Holders(u)
    BY <1>2, <1>3 DEF Holders
  <1>5. \A v \in Holders(u) : UnderWay(u, v) => UnderWay(u, v)'
    BY <1>2 DEF UnderWay, Holders, test_failed
  <1>6. NotStarted(u) => NotStarted(u)'
    BY <1>4 DEF NotStarted
  <1>7. Finished(u) => Finished(u)'
    BY DEF Finished
  <1> QED
    BY <1>1, <1>4, <1>5, <1>6, <1>7 DEF TestInv

(* A test that a worker runs is its alone, and has been handed out.         *)
LEMMA OneHolder ==
  ASSUME EvidenceInv, NEW w \in Workers, worker[w].pc \in Running
  PROVE  LET t == worker[w].test IN
         /\ t \in Tests /\ t \notin todo /\ t \notin skips /\ attempts[t] > 0
         /\ Holders(t) = {w} /\ UnderWay(t, w)
  <1> DEFINE t == worker[w].test
  <1>1. t \in Tests /\ TestInv(t) /\ w \in Holders(t) /\ attempts[t] \in Nat
    BY DEF EvidenceInv, EvidenceTypeOK, Holders
  <1>2. attempts[t] # 0
    BY <1>1 DEF TestInv, NotStarted
  <1> QED
    BY <1>1, <1>2 DEF TestInv, EvidenceInv

(* What a step within an attempt has to show.                               *)
LEMMA AttemptStep ==
  ASSUME EvidenceInv, NEW w \in Workers, worker[w].pc \in Running,
         NEW x \in Worker, x.pc \in Running, x.test = worker[w].test,
         worker' = [worker EXCEPT ![w] = x], UNCHANGED <<skips, todo>>, EvidenceTypeOK',
         attempts'[x.test] > 0, UnderWay(x.test, w)',
         \A u \in Tests \ {x.test} :
           /\ attempts'[u] = attempts[u] /\ files'[u] = files[u]
           /\ u \in logless' <=> u \in logless
           /\ \A category : Counted(u, category)' <=> Counted(u, category)
           /\ u \in dirs' => u \in dirs
  PROVE  EvidenceInv'
  <1> DEFINE t == x.test
  <1>1. /\ worker \in [Workers -> Worker] /\ worker'[w] = x
        /\ \A v \in Workers \ {w} : worker'[v] = worker[v]
    BY DEF EvidenceInv, EvidenceTypeOK
  <1>2. t \in Tests /\ t \notin todo /\ t \notin skips /\ Holders(t) = {w}
    BY OneHolder
  <1>3. Holders(t)' = {w}
    BY <1>1, <1>2 DEF Holders
  <1>4. TestInv(t)'
    BY <1>3 DEF TestInv
  <1>5. ASSUME NEW u \in Tests \ {t} PROVE TestInv(u)'
    BY OtherTests
  <1>6. \A v \in Workers : worker'[v].pc \in Running => worker'[v].test \in Tests
    BY <1>1, <1>2 DEF EvidenceInv
  <1>7. \A u \in (todo \cup skips)' : attempts'[u] = 0
    <2>1. ASSUME NEW u \in todo \cup skips PROVE u \in Tests \ {t} /\ attempts[u] = 0
      BY <1>2, EvidenceAssumption DEF EvidenceInv, EvidenceTypeOK
    <2> QED
      BY <2>1
  <1> QED
    BY <1>4, <1>5, <1>6, <1>7 DEF EvidenceInv

(* The attempt of a worker, and its next state, as values.                  *)
LEMMA Attempts ==
  ASSUME EvidenceInv, NEW w \in Workers, worker[w].pc \in Running
  PROVE  \E t \in Tests : /\ t = worker[w].test /\ t \notin todo \cup skips
                         /\ attempts[t] > 0 /\ Holders(t) = {w} /\ UnderWay(t, w)
  BY OneHolder

(* A worker makes a directory for its own attempt only.                     *)
LEMMA MakeDirectoryStep ==
  ASSUME EvidenceInv, NEW w \in Workers, MakeDirectory(w) PROVE EvidenceInv'
  <1>1. worker[w].pc = "mkdir" /\ worker[w].pc \in Running
    BY DEF MakeDirectory, At, Running
  <1>2. EvidenceTypeOK /\ worker[w] \in Worker
    BY DEF EvidenceInv, EvidenceTypeOK
  <1>3. PICK t \in Tests : t = worker[w].test /\ attempts[t] > 0 /\ UnderWay(t, w)
    BY <1>1, Attempts
  <1>4. PICK x : x = [worker[w] EXCEPT !.pc = "open"]
    OBVIOUS
  <1>5. x \in Worker /\ x.pc = "open" /\ x.test = t /\ x.pc \in Running
    BY <1>2, <1>3, <1>4 DEF Worker, Running
  <1>6. /\ worker' = [worker EXCEPT ![w] = x] /\ dirs' = dirs \cup {t}
        /\ UNCHANGED <<skips, todo, attempts, files, stats, logless>>
    BY <1>3, <1>4 DEF MakeDirectory, Goto
  <1>7. EvidenceTypeOK' /\ worker'[w] = x
    BY <1>2, <1>5, <1>6 DEF EvidenceTypeOK
  <1>8. UnderWay(t, w)'
    BY <1>3, <1>5, <1>6, <1>7 DEF UnderWay, Counted, test_failed
  <1> QED
    BY <1>1, <1>3, <1>5, <1>6, <1>7, <1>8, AttemptStep DEF Counted

(* A log that cannot be opened fails its own attempt and no other.          *)
LEMMA OpenLogStep ==
  ASSUME EvidenceInv, NEW w \in Workers, OpenLog(w) PROVE EvidenceInv'
  <1>1. /\ worker[w].pc = "open" /\ worker[w].pc \in Running
        /\ UNCHANGED <<skips, todo, attempts, stats>>
    BY DEF OpenLog, At, Running
  <1>2. EvidenceTypeOK /\ worker[w] \in Worker
    BY DEF EvidenceInv, EvidenceTypeOK
  <1>3. PICK t \in Tests : t = worker[w].test /\ attempts[t] > 0 /\ UnderWay(t, w)
    BY <1>1, Attempts
  <1>4. CASE t \in dirs
    <2>1. PICK x : x = [worker[w] EXCEPT !.pc = "call"]
      OBVIOUS
    <2>2. x \in Worker /\ x.pc = "call" /\ x.test = t /\ x.pc \in Running
      BY <1>2, <1>3, <2>1 DEF Worker, Running
    <2>3. /\ worker' = [worker EXCEPT ![w] = x] /\ dirs' = dirs \cup {t}
          /\ files' = [files EXCEPT ![t] = @ \cup {"test.log"}] /\ UNCHANGED logless
      BY <1>3, <1>4, <2>1 DEF OpenLog, Goto, Save
    <2>4. EvidenceTypeOK' /\ worker'[w] = x /\ "test.log" \in files'[t]
      BY <1>1, <1>2, <2>2, <2>3 DEF EvidenceTypeOK
    <2>5. UnderWay(t, w)'
      BY <1>1, <1>3, <2>2, <2>4 DEF UnderWay, Counted, test_failed
    <2>6. \A u \in Tests \ {t} : files'[u] = files[u] /\ (u \in dirs' => u \in dirs)
      BY <1>2, <2>3 DEF EvidenceTypeOK
    <2> QED
      BY <1>1, <1>3, <2>2, <2>3, <2>4, <2>5, <2>6, AttemptStep DEF Counted
  <1>5. CASE t \notin dirs
    <2>1. PICK x : x = [worker[w] EXCEPT !.pc = "record", !.failed = "setup"]
      OBVIOUS
    <2>2. x \in Worker /\ x.pc = "record" /\ x.failed # "none" /\ x.test = t /\ x.pc \in Running
      BY <1>2, <1>3, <2>1 DEF Worker, Running, Phases
    <2>3. /\ worker' = [worker EXCEPT ![w] = x] /\ UNCHANGED <<dirs, files>>
          /\ logless' = logless \cup {t}
      BY <1>2, <1>3, <1>5, <2>1 DEF OpenLog, EvidenceTypeOK, Worker
    <2>4. EvidenceTypeOK' /\ worker'[w] = x
      BY <1>1, <1>2, <2>2, <2>3 DEF EvidenceTypeOK
    <2>5. UnderWay(t, w)'
      BY <1>1, <1>3, <2>2, <2>3, <2>4 DEF UnderWay, Counted, test_failed
    <2> QED
      BY <1>1, <1>3, <2>2, <2>3, <2>4, <2>5, AttemptStep DEF Counted
  <1> QED
    BY <1>4, <1>5

(* The test call decides what there is to keep.                             *)
LEMMA CallStep ==
  ASSUME EvidenceInv, NEW w \in Workers, NEW failed \in Phases, NEW exchanges \in BOOLEAN,
         NEW opened \in BOOLEAN, Call(w, failed, exchanges, opened)
  PROVE  EvidenceInv'
  <1>1. /\ worker[w].pc = "call" /\ worker[w].pc \in Running
        /\ UNCHANGED <<skips, todo, attempts, dirs, files, stats, logless>>
    BY DEF Call, At, Running
  <1>2. EvidenceTypeOK /\ worker[w] \in Worker
    BY DEF EvidenceInv, EvidenceTypeOK
  <1>3. PICK t \in Tests : t = worker[w].test /\ attempts[t] > 0 /\ UnderWay(t, w)
    BY <1>1, Attempts
  <1>4. PICK x : x = [worker[w] EXCEPT
                        !.pc = IF opened THEN "contexts" ELSE "settle",
                        !.failed = failed, !.recorded = exchanges]
    OBVIOUS
  <1>5. /\ x \in Worker /\ x.pc \in {"contexts", "settle"} /\ x.test = t
        /\ x.pc \in Running
    BY <1>2, <1>3, <1>4 DEF Worker, Running
  <1>6. worker' = [worker EXCEPT ![w] = x]
    BY <1>2, <1>3, <1>4 DEF Call, EvidenceTypeOK, Worker
  <1>7. EvidenceTypeOK' /\ worker'[w] = x
    BY <1>1, <1>2, <1>5, <1>6 DEF EvidenceTypeOK
  <1>8. UnderWay(t, w)'
    BY <1>1, <1>3, <1>5, <1>7 DEF UnderWay, Counted, test_failed
  <1> QED
    BY <1>1, <1>3, <1>5, <1>6, <1>7, <1>8, AttemptStep DEF Counted

(* Closing the browser adds files to a directory of its own attempt.        *)
LEMMA StopContextsStep ==
  ASSUME EvidenceInv, NEW w \in Workers, NEW saved \in BOOLEAN, NEW raises \in BOOLEAN,
         StopContexts(w, saved, raises)
  PROVE  EvidenceInv'
  <1>1. /\ worker[w].pc = "contexts" /\ worker[w].pc \in Running
        /\ UNCHANGED <<skips, todo, attempts, stats, logless>>
    BY DEF StopContexts, At, Running
  <1>2. EvidenceTypeOK /\ worker[w] \in Worker
    BY DEF EvidenceInv, EvidenceTypeOK
  <1>3. PICK t \in Tests : t = worker[w].test /\ attempts[t] > 0 /\ UnderWay(t, w)
    BY <1>1, Attempts
  <1>4. PICK x : x = [worker[w] EXCEPT !.pc = "settle", !.broken = raises]
    OBVIOUS
  <1>5. x \in Worker /\ x.pc = "settle" /\ x.test = t /\ x.pc \in Running
    BY <1>2, <1>3, <1>4 DEF Worker, Running
  <1>6. worker' = [worker EXCEPT ![w] = x]
    BY <1>2, <1>4 DEF StopContexts, EvidenceTypeOK, Worker
  <1>7. \/ UNCHANGED <<dirs, files>>
        \/ dirs' = dirs \cup {t} /\ files' = [files EXCEPT ![t] = @ \cup {"trace.zip"}]
    BY <1>3 DEF StopContexts, Save
  <1>8. EvidenceTypeOK' /\ worker'[w] = x /\ files[t] \subseteq files'[t]
    BY <1>1, <1>2, <1>5, <1>6, <1>7 DEF EvidenceTypeOK
  <1>9. UnderWay(t, w)'
    BY <1>1, <1>3, <1>5, <1>8 DEF UnderWay, Counted, test_failed
  <1>10. \A u \in Tests \ {t} : files'[u] = files[u] /\ (u \in dirs' => u \in dirs)
    BY <1>2, <1>7 DEF EvidenceTypeOK
  <1> QED
    BY <1>1, <1>3, <1>5, <1>6, <1>8, <1>9, <1>10, AttemptStep DEF Counted

(* A passed attempt discards its own directory and no other.                *)
LEMMA KeepOrDiscardStep ==
  ASSUME EvidenceInv, NEW w \in Workers, KeepOrDiscard(w) PROVE EvidenceInv'
  <1>1. /\ worker[w].pc = "settle" /\ worker[w].pc \in Running
        /\ UNCHANGED <<skips, todo, attempts, stats, logless>>
    BY DEF KeepOrDiscard, At, Running
  <1>2. EvidenceTypeOK /\ worker[w] \in Worker
    BY DEF EvidenceInv, EvidenceTypeOK
  <1>3. PICK t \in Tests : t = worker[w].test /\ attempts[t] > 0 /\ UnderWay(t, w)
    BY <1>1, Attempts
  <1>4. PICK x : x = [worker[w] EXCEPT !.pc = "record"]
    OBVIOUS
  <1>5. /\ x \in Worker /\ x.pc = "record" /\ x.test = t /\ x.pc \in Running
        /\ x.failed = worker[w].failed
    BY <1>2, <1>3, <1>4 DEF Worker, Running
  <1>6. worker' = [worker EXCEPT ![w] = x]
    BY <1>4 DEF KeepOrDiscard, Goto
  <1>7. IF test_failed(w) THEN UNCHANGED <<dirs, files>>
        ELSE dirs' = dirs \ {t} /\ files' = [files EXCEPT ![t] = {}]
    BY <1>3 DEF KeepOrDiscard
  <1>8. /\ EvidenceTypeOK' /\ worker'[w] = x
        /\ IF x.failed # "none" THEN files'[t] = files[t] ELSE t \notin dirs'
    BY <1>1, <1>2, <1>5, <1>6, <1>7 DEF EvidenceTypeOK, test_failed
  <1>9. UnderWay(t, w)'
    BY <1>1, <1>3, <1>5, <1>8 DEF UnderWay, Counted, test_failed
  <1>10. \A u \in Tests \ {t} : files'[u] = files[u] /\ (u \in dirs' => u \in dirs)
    BY <1>2, <1>7 DEF EvidenceTypeOK
  <1> QED
    BY <1>1, <1>3, <1>5, <1>6, <1>8, <1>9, <1>10, AttemptStep DEF Counted

(* The recorded exchanges are written to a directory of their own attempt.  *)
LEMMA WriteRecordedStep ==
  ASSUME EvidenceInv, NEW w \in Workers, WriteRecorded(w) PROVE EvidenceInv'
  <1>1. /\ worker[w].pc = "record" /\ worker[w].pc \in Running
        /\ UNCHANGED <<skips, todo, attempts, stats, logless>>
    BY DEF WriteRecorded, At, Running
  <1>2. EvidenceTypeOK /\ worker[w] \in Worker
    BY DEF EvidenceInv, EvidenceTypeOK
  <1>3. PICK t \in Tests : t = worker[w].test /\ attempts[t] > 0 /\ UnderWay(t, w)
    BY <1>1, Attempts
  <1>4. PICK x : x = [worker[w] EXCEPT !.pc = "report"]
    OBVIOUS
  <1>5. /\ x \in Worker /\ x.pc = "report" /\ x.test = t /\ x.pc \in Running
        /\ x.failed = worker[w].failed
    BY <1>2, <1>3, <1>4 DEF Worker, Running
  <1>6. worker' = [worker EXCEPT ![w] = x]
    BY <1>4 DEF WriteRecorded, Goto
  <1>7. \/ UNCHANGED <<dirs, files>>
        \/ /\ test_failed(w)
           /\ dirs' = dirs \cup {t} /\ files' = [files EXCEPT ![t] = @ \cup {"http.log"}]
    BY <1>3 DEF WriteRecorded, Save
  <1>8. /\ EvidenceTypeOK' /\ worker'[w] = x /\ files[t] \subseteq files'[t]
        /\ x.failed = "none" => dirs' = dirs
    BY <1>1, <1>2, <1>5, <1>6, <1>7 DEF EvidenceTypeOK, test_failed
  <1>9. UnderWay(t, w)'
    BY <1>1, <1>3, <1>5, <1>8 DEF UnderWay, Counted, test_failed
  <1>10. \A u \in Tests \ {t} : files'[u] = files[u] /\ (u \in dirs' => u \in dirs)
    BY <1>2, <1>7 DEF EvidenceTypeOK
  <1> QED
    BY <1>1, <1>3, <1>5, <1>6, <1>8, <1>9, <1>10, AttemptStep DEF Counted

(* What an attempt is counted under, with and without another one to come.  *)
LEMMA WhatIsCounted ==
  ASSUME NEW w \in Workers, NEW again \in BOOLEAN,
         worker[w].failed \in Phases,
         again => worker[w].failed # "none" \/ worker[w].broken
  PROVE  LET C == Categories(w, again) IN
         /\ C \subseteq {"passed", "failed", "error", "rerun"}
         /\ again => "rerun" \in C /\ "failed" \notin C /\ "error" \notin C
         /\ ~again => IF worker[w].failed # "none"
                        THEN "failed" \in C \/ "error" \in C
                        ELSE "passed" \in C /\ "failed" \notin C
  BY DEF Categories, Phases

(* The report counts the attempt that ends, and retries while it may.       *)
LEMMA ReportStep ==
  ASSUME EvidenceInv, NEW w \in Workers, Report(w) PROVE EvidenceInv'
  <1>1. /\ worker[w].pc = "report" /\ worker[w].pc \in Running
        /\ UNCHANGED <<skips, todo, dirs, files, logless>>
    BY DEF Report, At, Running
  <1>2. EvidenceTypeOK /\ worker[w] \in Worker
    BY DEF EvidenceInv, EvidenceTypeOK
  <1>3. PICK t \in Tests : /\ t = worker[w].test /\ t \notin todo \cup skips
                          /\ attempts[t] > 0 /\ Holders(t) = {w} /\ UnderWay(t, w)
    BY <1>1, Attempts
  <1>4. PICK again \in BOOLEAN :
          again = ((worker[w].failed # "none" \/ worker[w].broken) /\ attempts[t] <= reruns_for(t))
    OBVIOUS
  <1>5. PICK C : C = Categories(w, again)
    OBVIOUS
  <1>6. /\ C \subseteq {"passed", "failed", "error", "rerun"}
        /\ again => "rerun" \in C /\ "failed" \notin C /\ "error" \notin C
        /\ ~again => IF worker[w].failed # "none"
                       THEN "failed" \in C \/ "error" \in C
                       ELSE "passed" \in C /\ "failed" \notin C
    BY <1>2, <1>4, <1>5, WhatIsCounted DEF Worker
  <1>7. /\ stats' = stats \cup {<<t, c>> : c \in C}
        /\ worker' = [worker EXCEPT ![w] = IF again THEN Fresh(t) ELSE Idle(t)]
        /\ attempts' = IF again THEN [attempts EXCEPT ![t] = @ + 1] ELSE attempts
    BY <1>3, <1>4, <1>5 DEF Report
  <1>8. /\ \A c : Counted(t, c)' <=> Counted(t, c) \/ c \in C
        /\ \A u \in Tests \ {t} : \A c : Counted(u, c)' <=> Counted(u, c)
    BY <1>7 DEF Counted
  <1>9. /\ stats' \subseteq Tests \X {"passed", "failed", "error", "skipped", "rerun"}
        /\ attempts' \in [Tests -> Nat] /\ attempts'[t] > 0
        /\ \A u \in Tests \ {t} : attempts'[u] = attempts[u]
    <2>1. C \subseteq {"passed", "failed", "error", "skipped", "rerun"}
      BY <1>6
    <2>2. stats' \subseteq Tests \X {"passed", "failed", "error", "skipped", "rerun"}
      BY <1>2, <1>3, <1>7, <2>1 DEF EvidenceTypeOK
    <2> QED
      BY <1>2, <1>3, <1>7, <2>2 DEF EvidenceTypeOK
  <1>10. CASE again
    <2>1. PICK x : x = Fresh(t)
      OBVIOUS
    <2>2. x \in Worker /\ x.pc = "mkdir" /\ x.test = t /\ x.pc \in Running
      BY <2>1 DEF Fresh, Worker, Running, Phases
    <2>3. worker' = [worker EXCEPT ![w] = x]
      BY <1>7, <1>10, <2>1
    <2>4. EvidenceTypeOK' /\ worker'[w] = x
      BY <1>1, <1>2, <1>9, <2>2, <2>3 DEF EvidenceTypeOK
    <2>5. UnderWay(t, w)'
      BY <1>3, <1>6, <1>8, <1>10, <2>2, <2>4 DEF UnderWay
    <2> QED
      BY <1>1, <1>3, <1>8, <1>9, <2>2, <2>3, <2>4, <2>5, AttemptStep
  <1>11. CASE ~again
    <2>1. PICK x : x = Idle(t)
      OBVIOUS
    <2>2. x \in Worker /\ x.pc = "idle" /\ x.pc \notin Running
      BY <2>1 DEF Idle, Fresh, Worker, Running, Phases
    <2>3. worker' = [worker EXCEPT ![w] = x] /\ attempts' = attempts
      BY <1>7, <1>11, <2>1
    <2>4. EvidenceTypeOK' /\ worker'[w] = x
      BY <1>1, <1>2, <1>9, <2>2, <2>3 DEF EvidenceTypeOK
    <2>5. Holders(t)' = {} /\ \A v \in Workers \ {w} : worker'[v] = worker[v]
      BY <1>2, <1>3, <2>2, <2>3 DEF Holders, EvidenceTypeOK
    <2>6. Finished(t)'
      BY <1>1, <1>3, <1>6, <1>8, <1>11, <2>3 DEF Finished, UnderWay, test_failed
    <2>7. TestInv(t)'
      BY <1>9, <2>5, <2>6 DEF TestInv
    <2>8. ASSUME NEW u \in Tests \ {t} PROVE TestInv(u)'
      BY <1>1, <1>3, <1>8, <1>9, <2>2, <2>3, OtherTests
    <2> QED
      BY <1>1, <2>2, <2>3, <2>4, <2>5, <2>7, <2>8 DEF EvidenceInv
  <1> QED
    BY <1>10, <1>11

(* An attempt is begun by one worker, and is the only one of its test.      *)
LEMMA StartTestStep ==
  ASSUME EvidenceInv, NEW w \in Workers, NEW t \in Tests, StartTest(w, t) PROVE EvidenceInv'
  <1>1. /\ worker[w].pc = "idle" /\ worker[w].pc \notin Running
        /\ t \in todo /\ t \notin skips /\ todo' = todo \ {t}
        /\ attempts' = [attempts EXCEPT ![t] = @ + 1]
        /\ UNCHANGED <<skips, dirs, files, stats, logless>>
    BY DEF StartTest, At, Running
  <1>2. /\ EvidenceTypeOK /\ worker \in [Workers -> Worker]
        /\ attempts[t] = 0 /\ NotStarted(t)
    BY <1>1 DEF EvidenceInv, EvidenceTypeOK, TestInv
  <1>3. PICK x : x = Fresh(t)
    OBVIOUS
  <1>4. x \in Worker /\ x.pc = "mkdir" /\ x.test = t /\ x.pc \in Running
    BY <1>3 DEF Fresh, Worker, Running, Phases
  <1>5. worker' = [worker EXCEPT ![w] = x]
    BY <1>3 DEF StartTest
  <1>6. /\ EvidenceTypeOK' /\ worker'[w] = x /\ attempts'[t] = 1
        /\ \A v \in Workers \ {w} : worker'[v] = worker[v]
        /\ \A u \in Tests \ {t} : attempts'[u] = attempts[u]
    BY <1>1, <1>2, <1>4, <1>5 DEF EvidenceTypeOK
  <1>7. Holders(t)' = {w}
    BY <1>2, <1>4, <1>6 DEF Holders, NotStarted
  <1>8. UnderWay(t, w)'
    BY <1>1, <1>2, <1>4, <1>6 DEF UnderWay, NotStarted, Counted
  <1>9. TestInv(t)'
    BY <1>6, <1>7, <1>8 DEF TestInv
  <1>10. ASSUME NEW u \in Tests \ {t} PROVE TestInv(u)'
    BY <1>1, <1>4, <1>5, <1>6, OtherTests DEF Counted
  <1> QED
    BY <1>1, <1>2, <1>4, <1>6, <1>9, <1>10 DEF EvidenceInv

(* A skipped test is counted and leaves no trace.                           *)
LEMMA SkipTestStep ==
  ASSUME EvidenceInv, NEW w \in Workers, NEW t \in Tests, SkipTest(w, t) PROVE EvidenceInv'
  <1>1. /\ t \in todo /\ todo' = todo \ {t}
        /\ stats' = stats \cup {<<t, "skipped">>}
        /\ UNCHANGED <<skips, worker, attempts, dirs, files, logless>>
    BY DEF SkipTest
  <1>2. /\ \A u \in Tests : Holders(u)' = Holders(u)
        /\ \A u, category : category # "skipped" =>
             (Counted(u, category)' <=> Counted(u, category))
    BY <1>1 DEF Holders, Counted
  <1>3. ASSUME NEW u \in Tests PROVE TestInv(u)'
    <2>1. TestInv(u)
      BY DEF EvidenceInv
    <2>2. /\ NotStarted(u) => NotStarted(u)'
          /\ Finished(u) => Finished(u)'
          /\ \A v \in Holders(u) : UnderWay(u, v) => UnderWay(u, v)'
      BY <1>1, <1>2 DEF NotStarted, Finished, UnderWay, test_failed
    <2> QED
      BY <1>1, <1>2, <2>1, <2>2 DEF TestInv
  <1>4. EvidenceTypeOK'
    BY <1>1 DEF EvidenceInv, EvidenceTypeOK
  <1> QED
    BY <1>1, <1>3, <1>4 DEF EvidenceInv

(* What a worker between its tests may do to the run directory.             *)
LEMMA BetweenTests ==
  ASSUME EvidenceInv, NEW w \in Workers, worker[w].pc \notin Running,
         NEW x \in Worker, x.pc \notin Running, worker' = [worker EXCEPT ![w] = x],
         UNCHANGED <<skips, todo, attempts, files, stats, logless>>, dirs' \subseteq dirs,
         \A u \in dirs \ dirs' : files[u] = {}
  PROVE  EvidenceInv'
  <1>1. EvidenceTypeOK' /\ \A v \in Workers \ {w} : worker'[v] = worker[v]
    BY DEF EvidenceInv, EvidenceTypeOK
  <1>2. worker'[w] = x
    BY DEF EvidenceInv, EvidenceTypeOK
  <1>3. ASSUME NEW u \in Tests PROVE TestInv(u)'
    BY OtherTests DEF Counted
  <1> QED
    BY <1>1, <1>2, <1>3 DEF EvidenceInv

(* Every step of a worker keeps the invariant of the evidence.              *)
LEMMA EvidenceStep ==
  ASSUME EvidenceInv, NEW w \in Workers, WorkerStep(w) PROVE EvidenceInv'
  <1>1. worker[w] \in Worker
    BY DEF EvidenceInv, EvidenceTypeOK
  <1>2. CASE ListDirectories(w)
    <2>1. PICK x : x = [worker[w] EXCEPT !.pc = "prune", !.listing = dirs]
      OBVIOUS
    <2>2. x \in Worker /\ x.pc \notin Running /\ worker' = [worker EXCEPT ![w] = x]
      BY <1>1, <1>2, <2>1
      DEF ListDirectories, Worker, Running, EvidenceInv, EvidenceTypeOK
    <2> QED
      BY <1>2, <2>2, BetweenTests DEF ListDirectories, At, Running
  <1>3. ASSUME NEW t \in Tests, PruneOne(w, t) PROVE EvidenceInv'
    <2>1. PICK x : x = [worker[w] EXCEPT !.listing = @ \ {t}]
      OBVIOUS
    <2>2. x \in Worker /\ x.pc = worker[w].pc /\ worker' = [worker EXCEPT ![w] = x]
      BY <1>1, <1>3, <2>1 DEF PruneOne, Worker
    <2> QED
      BY <1>3, <2>2, BetweenTests DEF PruneOne, At, Running
  <1>4. CASE EndSession(w)
    <2>1. PICK x : x = [worker[w] EXCEPT !.pc = "done"]
      OBVIOUS
    <2>2. x \in Worker /\ x.pc \notin Running /\ worker' = [worker EXCEPT ![w] = x]
      BY <1>1, <1>4, <2>1 DEF EndSession, Goto, Worker, Running
    <2> QED
      BY <1>4, <2>2, BetweenTests DEF EndSession, At, Running
  <1> QED
    BY <1>2, <1>3, <1>4, SkipTestStep, StartTestStep, MakeDirectoryStep, OpenLogStep, CallStep,
       StopContextsStep, KeepOrDiscardStep, WriteRecordedStep, ReportStep
    DEF WorkerStep

-----------------------------------------------------------------------------
(* The two passes.                                                          *)

(* The passes that have returned, and what their status says.               *)
Returned == CASE pass = "parallel" -> {}
              [] pass = "serial"   -> {"parallel"}
              [] pass = "over"     -> {"parallel", "serial"}

HadItsTurn(t) == IF t \in skips THEN Counted(t, "skipped") ELSE attempts[t] > 0

StatusIsRight(p) ==
  /\ status[p] = 0 => \A t \in Collected(p) : HadItsTurn(t) /\ (t \in skips \/ Green(t))
  /\ status[p] = 1 => \E t \in Collected(p) \ skips : ~Green(t)

SuiteTypeOK ==
  /\ serial \subseteq Tests /\ selected \subseteq Tests
  /\ pass \in {"parallel", "serial", "over"}
  /\ status \in [{"parallel", "serial"} -> {0, 1, 4}]

SuiteInv ==
  /\ SuiteTypeOK /\ EvidenceInv
  /\ todo \subseteq IF pass = "over" THEN {} ELSE Collected(pass)
  /\ \A w \in Workers : worker[w].pc \in Running =>
       pass # "over" /\ worker[w].test \in Collected(pass)
  /\ pass # "over" => \A t \in Collected(pass) : t \in todo \/ HadItsTurn(t)
  /\ pass = "parallel" => \A t \in Collected("serial") : attempts[t] = 0
  /\ todo = {} \/ \E w \in Workers : worker[w].pc \in {"idle"} \cup Running
  /\ \A p \in Returned : StatusIsRight(p)

(* How far the step of one worker reaches: itself, and the test it runs or  *)
(* takes; and no worker leaves while there is something to do.              *)
Reach(w) ==
  /\ \A v \in Workers \ {w} : worker'[v] = worker[v]
  /\ skips' = skips /\ todo' \subseteq todo
  /\ worker'[w].pc \in Running =>
       \/ worker'[w].test \in todo
       \/ worker[w].pc \in Running /\ worker'[w].test = worker[w].test
  /\ worker[w].pc \in {"idle"} \cup Running =>
       worker'[w].pc \in {"idle"} \cup Running \/ todo' = {}
  /\ \A u \in Tests : u \in todo \ todo' \/ HadItsTurn(u) => HadItsTurn(u)'
  /\ \A u \in Tests :
       \/ u \in todo
       \/ worker[w].pc \in Running /\ u = worker[w].test
       \/ /\ attempts'[u] = attempts[u]
          /\ \A category : Counted(u, category)' <=> Counted(u, category)

(* How far a step of one worker reaches: its own attempt and the counts.    *)
LEMMA WorkerReach ==
  ASSUME EvidenceInv, NEW w \in Workers, WorkerStep(w)
  PROVE  Reach(w)
  <1>1. /\ worker \in [Workers -> Worker] /\ worker[w] \in Worker
        /\ attempts \in [Tests -> Nat] /\ todo \subseteq Tests
    BY DEF EvidenceInv, EvidenceTypeOK
  <1>14. ASSUME NEW t \in Tests, SkipTest(w, t) PROVE Reach(w)
    <2>1. /\ t \in skips /\ t \in todo /\ todo' = todo \ {t} /\ worker[w].pc = "idle"
          /\ stats' = stats \cup {<<t, "skipped">>}
          /\ UNCHANGED <<skips, worker, attempts>>
      BY <1>14 DEF SkipTest, At
    <2>2. /\ \A u \in Tests \ {t} : \A c : Counted(u, c)' <=> Counted(u, c)
          /\ Counted(t, "skipped")'
      BY <2>1 DEF Counted
    <2> QED
      BY <1>1, <2>1, <2>2 DEF Reach, HadItsTurn, Running
  <1>2. ASSUME NEW t \in Tests, StartTest(w, t) PROVE Reach(w)
    <2>1. /\ t \in todo /\ todo' = todo \ {t} /\ stats' = stats
          /\ t \notin skips /\ skips' = skips
          /\ worker' = [worker EXCEPT ![w] = Fresh(t)]
          /\ attempts'[t] > 0 /\ \A u \in Tests \ {t} : attempts'[u] = attempts[u]
      BY <1>1, <1>2 DEF StartTest
    <2>2. Fresh(t).test = t /\ Fresh(t).pc \in Running
      BY DEF Fresh, Running
    <2> QED
      BY <1>1, <2>1, <2>2 DEF Reach, HadItsTurn, Counted
  <1>3. ASSUME Report(w) PROVE Reach(w)
    <2>1. worker[w].pc \in Running
      BY <1>3 DEF Report, At, Running
    <2>2. PICK t \in Tests : t = worker[w].test /\ attempts[t] > 0 /\ t \notin skips
      BY <2>1, Attempts
    <2>3. /\ todo' = todo /\ skips' = skips /\ attempts'[t] > 0
          /\ \/ worker' = [worker EXCEPT ![w] = Fresh(t)]
             \/ worker' = [worker EXCEPT ![w] = Idle(t)]
          /\ \A u \in Tests \ {t} :
               attempts'[u] = attempts[u] /\ \A c : Counted(u, c)' <=> Counted(u, c)
      <3>1. PICK again \in BOOLEAN :
              /\ stats' = stats \cup {<<t, c>> : c \in Categories(w, again)}
              /\ worker' = [worker EXCEPT ![w] = IF again THEN Fresh(t) ELSE Idle(t)]
              /\ attempts' = IF again THEN [attempts EXCEPT ![t] = @ + 1] ELSE attempts
              /\ todo' = todo /\ skips' = skips
        BY <1>3, <2>2 DEF Report
      <3>2. attempts'[t] > 0 /\ \A u \in Tests \ {t} : attempts'[u] = attempts[u]
        BY <1>1, <2>2, <3>1
      <3>3. \A u \in Tests \ {t} : \A c : Counted(u, c)' <=> Counted(u, c)
        BY <3>1 DEF Counted
      <3> QED
        BY <3>1, <3>2, <3>3
    <2>4. /\ Fresh(t).test = t /\ Fresh(t).pc \in Running
          /\ Idle(t).test = t /\ Idle(t).pc = "idle" /\ Idle(t).pc \notin Running
      BY DEF Fresh, Idle, Running
    <2> QED
      BY <1>1, <2>1, <2>2, <2>3, <2>4 DEF Reach, HadItsTurn
  <1>4. ASSUME NEW x, worker' = [worker EXCEPT ![w] = x], x.test = worker[w].test,
               x.pc \in Running => worker[w].pc \in Running,
               x.pc \in {"idle"} \cup Running \/ todo = {}
                 \/ worker[w].pc \notin {"idle"} \cup Running,
               UNCHANGED <<skips, todo, attempts, stats>>
        PROVE  Reach(w)
    BY <1>1, <1>4 DEF Reach, HadItsTurn, Counted
  <1>5. CASE MakeDirectory(w)
    <2>1. PICK x : x = [worker[w] EXCEPT !.pc = "open"]
      OBVIOUS
    <2> QED
      BY <1>1, <1>4, <1>5, <2>1 DEF MakeDirectory, Goto, At, Worker, Running
  <1>6. CASE OpenLog(w)
    <2>1. PICK x : x = IF worker[w].test \in dirs
                         THEN [worker[w] EXCEPT !.pc = "call"]
                         ELSE [worker[w] EXCEPT !.pc = "record", !.failed = "setup"]
      OBVIOUS
    <2>2. worker' = [worker EXCEPT ![w] = x]
      BY <1>1, <1>6, <2>1 DEF OpenLog, Goto, Worker
    <2> QED
      BY <1>1, <1>4, <1>6, <2>1, <2>2 DEF OpenLog, At, Worker, Running
  <1>7. ASSUME NEW failed \in Phases, NEW exchanges \in BOOLEAN, NEW opened \in BOOLEAN,
               Call(w, failed, exchanges, opened)
        PROVE  Reach(w)
    <2>1. PICK x : x = [worker[w] EXCEPT
             !.pc = IF opened THEN "contexts" ELSE "settle",
             !.failed = failed, !.recorded = exchanges]
      OBVIOUS
    <2>2. worker' = [worker EXCEPT ![w] = x]
      BY <1>1, <1>7, <2>1 DEF Call, Worker
    <2>3. x.pc \in Running /\ x.test = worker[w].test
      BY <1>1, <2>1 DEF Worker, Running
    <2> QED
      BY <1>4, <1>7, <2>2, <2>3 DEF Call, At, Running
  <1>8. ASSUME NEW saved \in BOOLEAN, NEW raises \in BOOLEAN, StopContexts(w, saved, raises)
        PROVE  Reach(w)
    <2>1. PICK x : x = [worker[w] EXCEPT !.pc = "settle", !.broken = raises]
      OBVIOUS
    <2>2. worker' = [worker EXCEPT ![w] = x]
      BY <1>1, <1>8, <2>1 DEF StopContexts, Worker
    <2> QED
      BY <1>1, <1>4, <1>8, <2>1, <2>2 DEF StopContexts, At, Worker, Running
  <1>9. CASE KeepOrDiscard(w)
    <2>1. PICK x : x = [worker[w] EXCEPT !.pc = "record"]
      OBVIOUS
    <2> QED
      BY <1>1, <1>4, <1>9, <2>1 DEF KeepOrDiscard, Goto, At, Worker, Running
  <1>10. CASE WriteRecorded(w)
    <2>1. PICK x : x = [worker[w] EXCEPT !.pc = "report"]
      OBVIOUS
    <2> QED
      BY <1>1, <1>4, <1>10, <2>1 DEF WriteRecorded, Goto, At, Worker, Running
  <1>11. CASE ListDirectories(w)
    <2>1. PICK x : x = [worker[w] EXCEPT !.pc = "prune", !.listing = dirs]
      OBVIOUS
    <2>2. worker' = [worker EXCEPT ![w] = x]
      BY <1>1, <1>11, <2>1 DEF ListDirectories, Worker
    <2> QED
      BY <1>1, <1>4, <1>11, <2>1, <2>2 DEF ListDirectories, Worker, Running
  <1>12. ASSUME NEW t \in Tests, PruneOne(w, t) PROVE Reach(w)
    <2>1. PICK x : x = [worker[w] EXCEPT !.listing = @ \ {t}]
      OBVIOUS
    <2>2. worker' = [worker EXCEPT ![w] = x]
      BY <1>1, <1>12, <2>1 DEF PruneOne, Worker
    <2> QED
      BY <1>1, <1>4, <1>12, <2>1, <2>2 DEF PruneOne, At, Worker, Running
  <1>13. CASE EndSession(w)
    <2>1. PICK x : x = [worker[w] EXCEPT !.pc = "done"]
      OBVIOUS
    <2> QED
      BY <1>1, <1>4, <1>13, <2>1 DEF EndSession, Goto, At, Worker, Running
  <1> QED
    BY <1>2, <1>3, <1>5, <1>6, <1>7, <1>8, <1>9, <1>10, <1>11, <1>12, <1>13,
       <1>14 DEF WorkerStep

(* No test is under way where no worker runs one.                           *)
LEMMA NobodyRuns ==
  ASSUME EvidenceInv, \A w \in Workers : worker[w].pc \notin Running, NEW t \in Tests
  PROVE  /\ Holders(t) = {} /\ TestInv(t) /\ attempts[t] \in Nat
         /\ attempts[t] > 0 => Finished(t)
         /\ attempts[t] = 0 => NotStarted(t)
  BY DEF EvidenceInv, EvidenceTypeOK, TestInv, Holders

(* The collected suite satisfies the invariant.                             *)
LEMMA SuiteStarts == SuiteInit => SuiteInv
  <1> SUFFICES ASSUME SuiteInit PROVE SuiteInv
    OBVIOUS
  <1> USE DEF SuiteInit, EvidenceStart
  <1>1. SuiteTypeOK /\ Collected(pass) \subseteq Tests
    BY DEF SuiteTypeOK, Collected
  <1>2. \A w \in Workers : worker[w] \in Worker /\ worker[w].pc = "idle"
    BY DEF Idle, Fresh, Worker, Running, Phases
  <1>3. \A w \in Workers : worker[w].pc \notin Running
    BY <1>2 DEF Running
  <1>4. EvidenceTypeOK
    BY <1>1, <1>2 DEF EvidenceTypeOK
  <1>5. \A t \in Tests : TestInv(t)
    BY <1>3 DEF TestInv, NotStarted, Holders, Counted
  <1>6. EvidenceInv /\ \A t \in Collected("serial") : attempts[t] = 0
    BY <1>1, <1>3, <1>4, <1>5, EvidenceAssumption
    DEF EvidenceInv, EvidenceTypeOK, Collected, SuiteTypeOK
  <1>7. Returned = {} /\ todo = Collected(pass)
    BY DEF Returned
  <1>8. \E w \in Workers : worker[w].pc = "idle"
    BY <1>2, EvidenceAssumption
  <1> QED
    BY <1>1, <1>3, <1>6, <1>7, <1>8 DEF SuiteInv

(* A step of a worker is about a test of the pass that runs: what the pass  *)
(* before it returned stays true.                                           *)
LEMMA WorkerKeepsSuite ==
  ASSUME SuiteInv, NEW w \in Workers, WorkerStep(w), UNCHANGED suiteOnly
  PROVE  SuiteInv'
  <1>1. EvidenceInv /\ EvidenceInv' /\ Reach(w)
    BY EvidenceStep, WorkerReach DEF SuiteInv
  <1>2. /\ UNCHANGED <<serial, selected, pass, status>> /\ SuiteTypeOK /\ SuiteTypeOK'
        /\ \A p : Collected(p)' = Collected(p)
        /\ Returned' = Returned
    BY DEF suiteOnly, SuiteInv, SuiteTypeOK, Collected, Returned
  <1>3. /\ todo \subseteq IF pass = "over" THEN {} ELSE Collected(pass)
        /\ todo' \subseteq todo
        /\ Collected(pass) \subseteq Tests /\ Collected("serial") \subseteq Tests
        /\ Collected("parallel") \subseteq Tests
        /\ Collected("parallel") \cap Collected("serial") = {}
    BY <1>1, <1>2 DEF SuiteInv, Reach, Collected, SuiteTypeOK
  <1>4. \A v \in Workers : worker[v].pc \in Running =>
          pass # "over" /\ worker[v].test \in Collected(pass)
    BY DEF SuiteInv
  <1>5. \A v \in Workers : worker'[v].pc \in Running =>
          pass # "over" /\ worker'[v].test \in Collected(pass)
    BY <1>1, <1>3, <1>4 DEF Reach
  <1>6. pass # "over" => \A t \in Collected(pass) : t \in todo' \/ HadItsTurn(t)'
    BY <1>1, <1>3 DEF Reach, SuiteInv
  <1>7. todo' = {} \/ \E v \in Workers : worker'[v].pc \in {"idle"} \cup Running
    BY <1>1 DEF Reach, SuiteInv
  <1>8. \A u \in Tests \ Collected(pass) :
          /\ attempts'[u] = attempts[u]
          /\ \A category : Counted(u, category)' <=> Counted(u, category)
    BY <1>1, <1>3, <1>4 DEF Reach
  <1>9. pass = "parallel" => \A t \in Collected("serial") : attempts'[t] = 0
    BY <1>3, <1>8 DEF SuiteInv
  <1>10. ASSUME NEW p \in Returned PROVE StatusIsRight(p)'
    <2>1. Collected(p) \subseteq Tests /\ StatusIsRight(p)
      BY <1>2, <1>3 DEF SuiteInv, Returned, SuiteTypeOK
    <2>2. pass # "over" => Collected(p) \cap Collected(pass) = {}
      BY <1>2, <1>3 DEF Returned, SuiteTypeOK
    <2>3. \A t \in Collected(p) :
            /\ attempts'[t] = attempts[t]
            /\ \A category : Counted(t, category)' <=> Counted(t, category)
      <3>1. CASE pass # "over"
        BY <1>8, <2>1, <2>2, <3>1
      <3>2. CASE pass = "over"
        BY <1>1, <1>3, <1>4, <2>1, <3>2 DEF Reach
      <3> QED
        BY <3>1, <3>2
    <2>4. /\ \A t \in Collected(p) : Green(t)' <=> Green(t)
          /\ \A t \in Collected(p) : HadItsTurn(t) => HadItsTurn(t)'
          /\ skips' = skips
      BY <1>1, <2>1, <2>3 DEF Green, Reach
    <2> QED
      BY <1>2, <2>1, <2>3, <2>4 DEF StatusIsRight
  <1> QED
    BY <1>1, <1>2, <1>3, <1>5, <1>6, <1>7, <1>9, <1>10 DEF SuiteInv

(* The script goes on to the next pass, or ends.                            *)
LEMMA ReturnStep ==
  ASSUME SuiteInv, pass # "over", \A w \in Workers : worker[w].pc \notin Running,
         NEW code, Return(code), run_pass(code) \in {0, 1, 4},
         run_pass(code) = 0 =>
           \A t \in Collected(pass) : HadItsTurn(t) /\ (t \in skips \/ Green(t)),
         run_pass(code) = 1 => \E t \in Collected(pass) \ skips : ~Green(t)
  PROVE  SuiteInv'
  <1>1. /\ SuiteTypeOK /\ EvidenceInv /\ EvidenceTypeOK /\ pass \in {"parallel", "serial"}
        /\ UNCHANGED <<skips, attempts, dirs, files, stats, logless, serial, selected>>
        /\ status' = [status EXCEPT ![pass] = run_pass(code)]
        /\ pass' = IF pass = "parallel" THEN "serial" ELSE "over"
    BY DEF SuiteInv, EvidenceInv, SuiteTypeOK, Return
  <1>2. SuiteTypeOK'
    BY <1>1 DEF SuiteTypeOK
  <1>3. \A p : Collected(p)' = Collected(p)
    BY <1>1 DEF Collected
  <1>4. /\ \A w \in Workers : worker'[w] \in Worker /\ worker'[w].pc \notin Running
        /\ worker' \in [Workers -> Worker]
        /\ todo' = IF pass = "parallel" THEN Collected("serial") ELSE {}
        /\ pass = "parallel" => \E w \in Workers : worker'[w].pc = "idle"
    <2>1. CASE pass = "parallel"
      <3>1. PICK one \in Workers :
              /\ todo' = Collected("serial")
              /\ worker' = [w \in Workers |->
                   IF w = one THEN Idle(None) ELSE [Idle(None) EXCEPT !.pc = "done"]]
        BY <2>1 DEF Return
      <3>2. /\ Idle(None) \in Worker /\ Idle(None).pc = "idle"
            /\ [Idle(None) EXCEPT !.pc = "done"] \in Worker
            /\ [Idle(None) EXCEPT !.pc = "done"].pc = "done"
        BY DEF Idle, Fresh, Worker, Running, Phases
      <3> QED
        BY <2>1, <3>1, <3>2 DEF Running
    <2>2. CASE pass = "serial"
      BY <1>1, <2>2 DEF Return, EvidenceTypeOK
    <2> QED
      BY <1>1, <2>1, <2>2
  <1>5. Collected("serial") \subseteq Tests
    BY <1>1 DEF Collected, SuiteTypeOK
  <1>6. ASSUME NEW t \in Tests PROVE TestInv(t)'
    <2>1. /\ attempts[t] \in Nat
          /\ attempts[t] > 0 => Finished(t)
          /\ attempts[t] = 0 => NotStarted(t)
      BY <1>1, NobodyRuns
    <2>2. Holders(t)' = {}
      BY <1>4 DEF Holders
    <2>3. Finished(t) => Finished(t)'
      BY <1>1 DEF Finished, Counted
    <2>4. NotStarted(t) => NotStarted(t)'
      BY <1>1, <2>2 DEF NotStarted, Counted
    <2>5. attempts' = attempts
      BY <1>1
    <2> QED
      BY <2>1, <2>2, <2>3, <2>4, <2>5 DEF TestInv
  <1>7. \A t \in (todo \cup skips)' : attempts'[t] = 0
    BY <1>1, <1>4 DEF SuiteInv, EvidenceInv
  <1>8. EvidenceTypeOK'
    BY <1>1, <1>4, <1>5 DEF EvidenceTypeOK
  <1>9. EvidenceInv'
    BY <1>4, <1>6, <1>7, <1>8 DEF EvidenceInv
  <1>10. ASSUME NEW p \in Returned' PROVE StatusIsRight(p)'
    <2>1. \A t : (Green(t)' <=> Green(t)) /\ (HadItsTurn(t)' <=> HadItsTurn(t))
      BY <1>1 DEF Green, HadItsTurn, Counted
    <2>2. CASE p = pass
      <3>1. status'[p] = run_pass(code)
        BY <1>1, <2>2 DEF SuiteTypeOK
      <3> QED
        BY <1>1, <1>3, <2>1, <2>2, <3>1 DEF StatusIsRight
    <2>3. CASE p # pass
      <3>1. p \in Returned /\ status'[p] = status[p]
        BY <1>1, <2>3 DEF Returned, SuiteTypeOK
      <3> QED
        BY <1>1, <1>3, <2>1, <3>1 DEF SuiteInv, StatusIsRight
    <2> QED
      BY <2>2, <2>3
  <1> QED
    BY <1>1, <1>2, <1>3, <1>4, <1>7, <1>9, <1>10 DEF SuiteInv

(* A session whose workers have all left has run everything it collected,   *)
(* and pytest's exit code says whether a test ended otherwise than green.   *)
LEMMA EndPassStep == ASSUME SuiteInv, EndPass PROVE SuiteInv'
  <1>1. /\ pass # "over" /\ \A w \in Workers : worker[w].pc = "done"
        /\ Return(exit_code(pass))
        /\ SuiteTypeOK /\ EvidenceInv /\ Collected(pass) \subseteq Tests
    BY DEF EndPass, Over, SuiteInv, SuiteTypeOK, Collected
  <1>2. \A w \in Workers : worker[w].pc \notin {"idle"} \cup Running
    BY <1>1 DEF Running
  <1>3. todo = {}
    BY <1>2 DEF SuiteInv
  <1>4. ASSUME NEW t \in Collected(pass)
        PROVE  /\ HadItsTurn(t)
               /\ IF t \in skips
                    THEN ~Counted(t, "failed") /\ ~Counted(t, "error")
                    ELSE ~Counted(t, "failed") /\ ~Counted(t, "error") => Green(t)
    <2>1. HadItsTurn(t)
      BY <1>1, <1>3 DEF SuiteInv
    <2>2. CASE t \in skips
      <3>1. NotStarted(t)
        BY <1>1, <1>2, <2>2, NobodyRuns DEF EvidenceInv
      <3> QED
        BY <2>1, <2>2, <3>1 DEF NotStarted
    <2>3. CASE t \notin skips
      <3>1. Finished(t)
        BY <1>1, <1>2, <2>1, <2>3, NobodyRuns DEF HadItsTurn
      <3> QED
        BY <2>1, <2>3, <3>1 DEF Finished, Green
    <2> QED
      BY <2>2, <2>3
  <1>5. CASE Collected(pass) = {}
    <2>1. exit_code(pass) = 5 /\ run_pass(exit_code(pass)) = 0
      BY <1>5 DEF exit_code, run_pass
    <2> QED
      BY <1>1, <1>2, <1>5, <2>1, ReturnStep
  <1>6. CASE /\ Collected(pass) # {}
             /\ \E t \in Collected(pass) : Counted(t, "failed") \/ Counted(t, "error")
    <2>1. exit_code(pass) = 1 /\ run_pass(exit_code(pass)) = 1
      BY <1>6 DEF exit_code, run_pass
    <2>2. \E t \in Collected(pass) \ skips : ~Green(t)
      BY <1>4, <1>6 DEF Green
    <2> QED
      BY <1>1, <1>2, <2>1, <2>2, ReturnStep
  <1>7. CASE /\ Collected(pass) # {}
             /\ ~\E t \in Collected(pass) : Counted(t, "failed") \/ Counted(t, "error")
    <2>1. exit_code(pass) = 0 /\ run_pass(exit_code(pass)) = 0
      BY <1>7 DEF exit_code, run_pass
    <2> QED
      BY <1>1, <1>2, <1>4, <1>7, <2>1, ReturnStep
  <1> QED
    BY <1>5, <1>6, <1>7

(* A pass that is refused runs no test.                                     *)
LEMMA RefusePassStep == ASSUME SuiteInv, RefusePass PROVE SuiteInv'
  <1>1. /\ pass # "over" /\ Return(4) /\ run_pass(4) = 4
        /\ \A w \in Workers : worker[w].pc \notin Running
    BY DEF RefusePass, run_pass, Running
  <1> QED
    BY <1>1, ReturnStep

(* The invariant of the whole suite, workers and script.                    *)
THEOREM SuiteInvariance == SuiteSpec => []SuiteInv
  <1>1. SuiteInv /\ UNCHANGED suiteVars => SuiteInv'
    <2> SUFFICES ASSUME SuiteInv, UNCHANGED suiteVars PROVE SuiteInv'
      OBVIOUS
    <2> USE DEF suiteVars, evidenceVars
    <2>1. ASSUME NEW t \in Tests PROVE TestInv(t)'
      <3>1. TestInv(t) /\ Holders(t)' = Holders(t)
        BY DEF SuiteInv, EvidenceInv, Holders
      <3>2. /\ NotStarted(t) => NotStarted(t)'
            /\ Finished(t) => Finished(t)'
            /\ \A w \in Holders(t) : UnderWay(t, w) => UnderWay(t, w)'
        BY <3>1 DEF NotStarted, Finished, UnderWay, Counted, test_failed
      <3> QED
        BY <3>1, <3>2 DEF TestInv
    <2>2. EvidenceInv'
      BY <2>1 DEF SuiteInv, EvidenceInv, EvidenceTypeOK
    <2> QED
      BY <2>2 DEF SuiteInv, SuiteTypeOK, Collected, Returned, StatusIsRight, HadItsTurn,
                  Green, Counted
  <1>2. SuiteInv /\ [SuiteNext]_suiteVars => SuiteInv'
    BY <1>1, WorkerKeepsSuite, EndPassStep, RefusePassStep DEF SuiteNext
  <1> QED
    BY <1>2, SuiteStarts, PTL DEF SuiteSpec

(* However many workers prune while others run, a session leaves nothing of *)
(* a test that passed.                                                      *)
THEOREM PassedTestsLeaveNothing == SuiteSpec => []PassLeavesNothing
  <1>1. SuiteInv => PassLeavesNothing
    <2> SUFFICES ASSUME SuiteInv, Over, NEW t \in dirs
                 PROVE  Counted(t, "failed") \/ Counted(t, "error")
      BY DEF PassLeavesNothing
    <2>1. EvidenceInv /\ t \in Tests /\ \A w \in Workers : worker[w].pc \notin Running
      BY DEF SuiteInv, EvidenceInv, EvidenceTypeOK, Over, Running
    <2>2. attempts[t] > 0
      BY <2>1, NobodyRuns DEF NotStarted
    <2> QED
      BY <2>1, <2>2, NobodyRuns DEF Finished
  <1> QED
    BY <1>1, SuiteInvariance, PTL

(* No pruning takes a log that is in use or that was kept for a failure.    *)
THEOREM LogsSurvive == SuiteSpec => []LogSurvives
  <1>1. SuiteInv => LogSurvives
    <2> SUFFICES ASSUME SuiteInv PROVE LogSurvives
      OBVIOUS
    <2>1. EvidenceInv
      BY DEF SuiteInv
    <2>2. ASSUME NEW w \in Workers, worker[w].pc \in {"call", "contexts", "settle"}
          PROVE  "test.log" \in files[worker[w].test]
      <3>1. worker[w].pc \in Running
        BY <2>2 DEF Running
      <3> QED
        BY <2>1, <2>2, <3>1, OneHolder DEF UnderWay
    <2>3. ASSUME Over, NEW t \in Tests \ logless, FailedBeforeTeardown(t)
          PROVE  "test.log" \in files[t]
      <3>1. \A w \in Workers : worker[w].pc \notin Running
        BY <2>3 DEF Over, Running
      <3>2. attempts[t] > 0
        BY <2>1, <2>3, <3>1, NobodyRuns DEF NotStarted, FailedBeforeTeardown
      <3> QED
        BY <2>1, <2>3, <3>1, <3>2, NobodyRuns DEF Finished, FailedBeforeTeardown
    <2> QED
      BY <2>2, <2>3 DEF LogSurvives
  <1> QED
    BY <1>1, SuiteInvariance, PTL

(* No recovery goes unannounced.                                            *)
THEOREM RecoveriesAreFlaky == SuiteSpec => []RecoveredIsFlaky
  <1>1. SuiteInv => RecoveredIsFlaky
    <2> SUFFICES ASSUME SuiteInv, Over, NEW t \in Tests, attempts[t] > 1,
                        ~Counted(t, "failed"), ~Counted(t, "error")
                 PROVE  t \in Flaky
      BY DEF RecoveredIsFlaky
    <2>1. EvidenceInv /\ \A w \in Workers : worker[w].pc \notin Running
      BY DEF SuiteInv, Over, Running
    <2>2. Finished(t)
      BY <2>1, NobodyRuns
    <2> QED
      BY <2>2 DEF Finished, Flaky
  <1> QED
    BY <1>1, SuiteInvariance, PTL

(* "Suite passed" and "Suite FAILED" mean what they say, for every marker   *)
(* expression and however the tests are split over the two passes.          *)
THEOREM VerdictIsRight == SuiteSpec => []SuiteVerdict
  <1>1. SuiteInv => SuiteVerdict
    <2> SUFFICES ASSUME SuiteInv, pass = "over" PROVE SuiteVerdict
      BY DEF SuiteVerdict
    <2>1. /\ StatusIsRight("parallel") /\ StatusIsRight("serial")
          /\ SuiteTypeOK
      BY DEF SuiteInv, Returned
    <2>2. /\ selected = Collected("parallel") \cup Collected("serial")
          /\ status["parallel"] \in {0, 1, 4} /\ status["serial"] \in {0, 1, 4}
          /\ DOMAIN status = {"parallel", "serial"}
      BY <2>1 DEF Collected, SuiteTypeOK
    <2>3. CASE SuitePassed
      BY <2>1, <2>2, <2>3 DEF SuiteVerdict, SuitePassed, StatusIsRight, HadItsTurn
    <2>4. CASE ~SuitePassed
      <3>1. \E p \in {"parallel", "serial"} : status[p] \in {1, 4}
        BY <2>2, <2>4 DEF SuitePassed
      <3> QED
        BY <2>1, <2>2, <2>4, <3>1 DEF SuiteVerdict, StatusIsRight
    <2> QED
      BY <2>3, <2>4
  <1> QED
    BY <1>1, SuiteInvariance, PTL
=============================================================================
