--------------------------- MODULE GateEvaluateProofs ---------------------------
(* What a verdict of sg_gate_evaluate authorizes, and what a call learns,  *)
(* proved for any command lines, gates, capacities and numbers of calls;   *)
(* and that the dependency graph such a call builds says of the stages of  *)
(* its line what a shell does with them, proved for any commands and lines *)
(* of any length and depth.                                                *)
EXTENDS GateEvaluate, ShellRun, TLAPS

-------------------------------------------------------------------------------
(* The inductive invariant *)

Steps == {"idle", "parse", "graph", "score", "walk", "conclude", "learn", "done"}

Failures == {"OK", "MEMORY", "PARSE"}

Types ==
    /\ source \in Sources /\ gate \in Gates /\ pc \in Steps
    /\ overflow \in BOOLEAN /\ capped \in BOOLEAN /\ stopped \in BOOLEAN
    /\ results \in Seq(Verdicts) /\ kept \in Nat
    /\ failure \in Failures /\ status \in Statuses /\ verdict \in Verdicts
    /\ truncated \in BOOLEAN
    /\ learned \in Nat /\ retained \in Nat

(* What the walk makes of the answer to one command, and what the routes   *)
(* of substitutions leave of that.                                         *)
Walked1(answer) == CASE answer = "deny" -> "DENY"
                     [] answer = "none" -> "UNDETERMINED"
                     [] OTHER           -> "ALLOW"
Routed(answer)  == IF answer = "allowWord" THEN "ALLOW_CONDITIONAL"
                                           ELSE Walked1(answer)

(* The results before the walk, ... *)
NotWalked ==
    /\ pc = "parse" => ~capped
    /\ pc \in {"parse", "graph", "score"} =>
           results = <<>> /\ ~stopped /\ failure = "OK"

(* ... the commands that are walked, ... *)
Retained ==
    pc \in {"score", "walk", "conclude"} =>
        /\ source.text = "accepted"
        /\ kept <= Len(source.cmds)
        /\ ~capped => kept = Len(source.cmds)

(* ... and what was found on the way, as long as nothing failed.           *)
OnTheWay ==
    pc \in {"walk", "conclude"} =>
        /\ Len(results) <= kept
        /\ failure = "OK" => \A i \in 1..Len(results) :
               results[i] = (IF pc = "walk" THEN Walked1(source.cmds[i])
                                            ELSE Routed(source.cmds[i]))
        /\ pc = "conclude" /\ ~capped => stopped \/ Len(results) = kept
        /\ stopped =>
               /\ results # <<>> /\ gate.stop # "all"
               /\ gate.stop = "firstDeny" /\ failure = "OK" =>
                      source.cmds[Len(results)] = "deny"

Expected ==
    IF "deny" \in Seen THEN "DENY"
    ELSE IF source.io \/ source.arith \/ "none" \in Seen THEN "UNDETERMINED"
    ELSE IF source.word THEN "ALLOW_CONDITIONAL" ELSE "ALLOW"

(* A verdict that was reached by the results.                              *)
Settled ==
    /\ status = "OK" /\ ~truncated /\ ~capped
    /\ source.text = "accepted"
    /\ verdict = Expected
    /\ ~ShortCircuited => Len(results) = Len(source.cmds)
    /\ gate.stop \in {"all", "firstDeny"}
         /\ (\E i \in 1..Len(source.cmds) : source.cmds[i] = "deny") =>
           "deny" \in Seen

IInv ==
    /\ Types
    /\ NotWalked /\ Retained /\ OnTheWay
    /\ pc = "learn" => Settled
    /\ AuthorizesWhole /\ VerdictExact /\ LearnsOnce

-------------------------------------------------------------------------------
(* Before a call ends, nothing was learned from the source. *)
LEMMA NotLearned ==
    ASSUME IInv, pc # "done"
    PROVE  learned = 0 /\ retained = 0
  BY DEF IInv, Types, LearnsOnce, Done

(* A return that failed, wherever it is and whatever it leaves of the      *)
(* results.                                                                *)
LEMMA FailureReturned ==
    ASSUME IInv, pc # "done", NEW s \in {"TRUNC", "MEMORY", "PARSE", "EXPAND"},
           NEW t \in BOOLEAN, s = "TRUNC" => t,
           Return("UNDETERMINED", s, t),
           capped' \in BOOLEAN, overflow' \in BOOLEAN, stopped' \in BOOLEAN,
           results' \in Seq(Verdicts), kept' \in Nat, failure' \in Failures
    PROVE  IInv'
  <1>1. learned' = 0 /\ retained' = 0
    BY NotLearned DEF Return, memory
  <1>2. Types'
    BY <1>1 DEF IInv, Types, Return, request, Steps, Statuses, Verdicts
  <1>3. pc' = "done" /\ verdict' = "UNDETERMINED" /\ status' = s /\ truncated' = t
    BY DEF Return
  <1>4. NotWalked' /\ Retained' /\ OnTheWay'
    BY <1>3 DEF NotWalked, Retained, OnTheWay
  <1>5. AuthorizesWhole'
    BY <1>3 DEF AuthorizesWhole, Permits
  <1>6. VerdictExact'
    BY <1>3 DEF VerdictExact, FailsUndetermined, Done
  <1>7. LearnsOnce'
    BY <1>1 DEF LearnsOnce
  <1> QED  BY <1>2, <1>3, <1>4, <1>5, <1>6, <1>7 DEF IInv

(* A verdict that is settled may be returned. *)
LEMMA SettledReturned ==
    Types /\ Settled /\ Done => AuthorizesWhole /\ VerdictExact
  <1> SUFFICES ASSUME Types, Settled, Done
               PROVE  AuthorizesWhole /\ VerdictExact
    OBVIOUS
  <1>1. source \in Source /\ source.cmds \in Seq(Answers)
    BY EvaluateAssumption DEF Types, Source
  <1>2. AuthorizesWhole
    <2>1. SUFFICES ASSUME verdict \in Permits, ~ShortCircuited
                   PROVE  /\ Len(results) = Len(source.cmds)
                          /\ Seen \subseteq Allowing /\ ~source.io /\ ~source.arith
                          /\ verdict = "ALLOW" => ~source.word
      BY DEF AuthorizesWhole, Settled
    <2>2. Len(results) = Len(source.cmds)
      BY <2>1 DEF Settled
    <2>3. Seen \subseteq Answers
      BY <1>1, <2>2 DEF Seen
    <2>4. /\ "deny" \notin Seen /\ "none" \notin Seen
          /\ ~source.io /\ ~source.arith
          /\ verdict = "ALLOW" => ~source.word
      BY <2>1 DEF Settled, Expected, Permits
    <2> QED  BY <2>2, <2>3, <2>4 DEF Answers, Allowing
  <1>3. verdict \in {"DENY", "UNDETERMINED", "ALLOW_CONDITIONAL", "ALLOW"}
    BY DEF Settled, Expected
  <1>4. FailsUndetermined
    BY <1>3 DEF FailsUndetermined, Settled
  <1>5. (/\ gate.stop \in {"all", "firstDeny"}
         /\ \E i \in 1..Len(source.cmds) : source.cmds[i] = "deny") =>
              verdict = "DENY"
    BY DEF Settled, Expected
  <1> QED  BY <1>2, <1>4, <1>5 DEF VerdictExact, Settled, Expected

-------------------------------------------------------------------------------
LEMMA NoResults == <<>> \in Seq(Verdicts)
  OBVIOUS

LEMMA Appended ==
    ASSUME NEW given \in Seq(Verdicts), NEW v \in Verdicts
    PROVE  Append(given, v) \in Seq(Verdicts)
  OBVIOUS

LEMMA Initially == Init => IInv
  <1> SUFFICES ASSUME Init PROVE IInv
    OBVIOUS
  <1>1. Types
    BY NoResults DEF Init, Types, Steps, Statuses, Failures, Verdicts
  <1>2. NotWalked /\ Retained /\ OnTheWay
    BY DEF Init, NotWalked, Retained, OnTheWay
  <1>3. AuthorizesWhole /\ VerdictExact /\ LearnsOnce
    BY DEF Init, AuthorizesWhole, VerdictExact, FailsUndetermined, LearnsOnce, Done
  <1> QED  BY <1>1, <1>2, <1>3 DEF IInv, Init

(* A call begins with a new result, and only where the last one learned    *)
(* nothing.                                                                *)
LEMMA CallStep ==
    ASSUME IInv, NEW capacity \in Capacities, Call(capacity)
    PROVE  IInv'
  <1>1. learned = 0 /\ retained = 0
    BY DEF IInv, Types, LearnsOnce, Done, Call
  <1>2. Types'
    BY NoResults DEF IInv, Types, Call, Fresh, request, memory, Steps, Statuses,
         Failures, Verdicts
  <1>3. pc' = "parse"
    BY DEF Call
  <1>4. NotWalked'
    BY <1>3 DEF NotWalked, Call, Fresh
  <1>5. LearnsOnce'
    BY <1>1 DEF LearnsOnce, Call, memory
  <1> QED  BY <1>2, <1>3, <1>4, <1>5 DEF IInv, Retained, OnTheWay,
             AuthorizesWhole, VerdictExact, FailsUndetermined, Done

(* A line without commands is permitted as it stands. *)
LEMMA BlankStep ==
    ASSUME IInv, Blank
    PROVE  IInv'
  <1>1. learned' = 0 /\ retained' = 0
    BY NotLearned DEF Blank, Return, memory
  <1>2. /\ pc' = "done" /\ verdict' = "ALLOW" /\ status' = "BLANK" /\ ~truncated'
        /\ UNCHANGED <<source, gate, overflow, capped, results, kept, stopped,
                       failure>>
    BY DEF Blank, Return, request, walk
  <1>3. Types'
    BY <1>1, <1>2 DEF IInv, Types, Blank, Return, Steps, Statuses, Verdicts
  <1>4. results = <<>> /\ source.text = "blank"
    BY DEF IInv, NotWalked, Blank
  <1>5. source.cmds = <<>> /\ ~source.io /\ ~source.arith /\ ~source.word
    BY <1>4, EvaluateAssumption DEF IInv, Types
  <1>6. AuthorizesWhole'
    BY <1>2, <1>4, <1>5 DEF AuthorizesWhole, Seen
  <1>7. ~capped'
    BY <1>2 DEF IInv, NotWalked, Blank
  <1>8. VerdictExact'
    BY <1>2, <1>4, <1>5, <1>7 DEF VerdictExact, FailsUndetermined, Done
  <1> QED  BY <1>1, <1>2, <1>3, <1>6, <1>8 DEF IInv, NotWalked, Retained,
             OnTheWay, LearnsOnce, Done

(* A rejection, of a text that something is wrong with. *)
LEMMA Refused ==
    ASSUME IInv, pc # "done", NEW s \in {"PARSE", "OK"}, Refuse(s),
           source.text \in {"malformed", "unsupported"}, capped' = FALSE
    PROVE  IInv'
  <1>1. /\ results' = <<"REJECT">>
        /\ overflow' \in BOOLEAN /\ stopped' \in BOOLEAN
        /\ results' \in Seq(Verdicts) /\ kept' \in Nat /\ failure' \in Failures
    BY DEF Refuse, IInv, Types, Verdicts
  <1>2. CASE Return("UNDETERMINED", "TRUNC", TRUE)
    BY <1>1, <1>2, FailureReturned
  <1>3. CASE Return("REJECT", s, FALSE)
    <2>1. learned' = 0 /\ retained' = 0
      BY <1>3, NotLearned DEF Return, memory
    <2>2. /\ pc' = "done" /\ verdict' = "REJECT" /\ status' = s /\ ~truncated'
          /\ UNCHANGED <<source, gate>>
      BY <1>3 DEF Return, request
    <2>3. Types'
      BY <1>1, <1>3, <2>1, <2>2 DEF IInv, Types, Return, Steps, Statuses, Verdicts
    <2>4. source.cmds = <<>>
      BY EvaluateAssumption DEF IInv, Types
    <2>5. VerdictExact'
      BY <2>2, <2>4 DEF VerdictExact, FailsUndetermined
    <2>6. AuthorizesWhole'
      BY <2>2 DEF AuthorizesWhole, Permits
    <2> QED  BY <2>1, <2>2, <2>3, <2>5, <2>6 DEF IInv, NotWalked, Retained,
               OnTheWay, LearnsOnce
  <1> QED  BY <1>2, <1>3 DEF Refuse

LEMMA ParseStep ==
    ASSUME IInv, ParseRefuses \/ ParseExhausted \/ Parsed
    PROVE  IInv'
  <1>1. CASE ParseRefuses
    BY <1>1, Refused DEF ParseRefuses, IInv, NotWalked, Types
  <1>2. CASE ParseExhausted
    <2>1. Return("UNDETERMINED", "TRUNC", TRUE)
          /\ UNCHANGED <<overflow, results, kept, stopped, failure>>
      BY <1>2 DEF ParseExhausted, Undetermined, walk
    <2> QED  BY <1>2, <2>1, FailureReturned DEF ParseExhausted, IInv, Types
  <1>3. CASE Parsed
    <2>1. /\ UNCHANGED <<source, gate, overflow, verdict, status, truncated,
                         results, kept, stopped, failure, learned, retained>>
          /\ pc = "parse" /\ pc' = "graph" /\ capped' \in BOOLEAN
      BY <1>3 DEF Parsed, request, outcome, walk, memory
    <2>2. Types'
      BY <2>1 DEF IInv, Types, Steps
    <2> QED  BY <2>1, <2>2, NotLearned DEF IInv, NotWalked, Retained, OnTheWay,
               AuthorizesWhole, VerdictExact, FailsUndetermined, LearnsOnce, Done
  <1> QED  BY <1>1, <1>2, <1>3

LEMMA GraphStep ==
    ASSUME IInv, GraphFails \/ GraphRefuses \/ ViolationsOverflow \/ GraphBuilt
    PROVE  IInv'
  <1>1. ASSUME GraphFails \/ ViolationsOverflow
        PROVE  IInv'
    <2>1. PICK s \in {"TRUNC", "MEMORY", "EXPAND"}, t \in BOOLEAN :
             Undetermined(s, t) /\ (s = "TRUNC" => t)
      BY <1>1 DEF GraphFails, ViolationsOverflow
    <2>2. Return("UNDETERMINED", s, t)
          /\ UNCHANGED <<overflow, results, kept, stopped, failure>>
      BY <2>1 DEF Undetermined, walk
    <2>3. pc # "done" /\ capped' = FALSE
      BY <1>1 DEF GraphFails, ViolationsOverflow
    <2> QED  BY <2>1, <2>2, <2>3, FailureReturned DEF IInv, Types
  <1>2. CASE GraphRefuses
    BY <1>2, Refused DEF GraphRefuses
  <1>3. CASE GraphBuilt
    <2>1. /\ UNCHANGED <<source, gate, overflow, verdict, status, truncated,
                         results, stopped, failure, learned, retained>>
          /\ pc = "graph" /\ pc' = "score" /\ source.text = "accepted"
      BY <1>3 DEF GraphBuilt, request, outcome, memory
    <2>2. capped' \in BOOLEAN
      BY <1>3 DEF GraphBuilt
    <2>3. PICK n \in 0..Len(source.cmds) :
             kept' = n /\ (capped' \/ n = Len(source.cmds))
      BY <1>3 DEF GraphBuilt
    <2>4. Types'
      BY <2>1, <2>2, <2>3 DEF IInv, Types, Steps
    <2>5. Retained'
      BY <2>1, <2>3 DEF Retained
    <2> QED  BY <2>1, <2>4, <2>5, NotLearned DEF IInv, NotWalked, OnTheWay,
               AuthorizesWhole, VerdictExact, FailsUndetermined, LearnsOnce, Done
  <1> QED  BY <1>1, <1>2, <1>3

LEMMA ScoreStep ==
    ASSUME IInv, ScoreFails \/ Scored
    PROVE  IInv'
  <1>1. CASE ScoreFails
    <2>1. PICK s \in {"TRUNC", "MEMORY", "PARSE"}, t \in BOOLEAN :
             Undetermined(s, t) /\ (s = "TRUNC" => t)
      BY <1>1 DEF ScoreFails
    <2>2. Return("UNDETERMINED", s, t)
          /\ UNCHANGED <<overflow, results, kept, stopped, failure>>
      BY <2>1 DEF Undetermined, walk
    <2> QED  BY <1>1, <2>1, <2>2, FailureReturned DEF ScoreFails, IInv, Types
  <1>2. CASE Scored
    <2>1. /\ UNCHANGED <<source, gate, overflow, verdict, status, truncated,
                         capped, results, kept, stopped, failure,
                         learned, retained>>
          /\ pc = "score" /\ pc' = "walk"
      BY <1>2 DEF Scored, request, outcome, walk, memory
    <2>2. Types'
      BY <2>1 DEF IInv, Types, Steps
    <2>3. Retained' /\ NotWalked'
      BY <2>1 DEF IInv, Retained, NotWalked
    <2>4. OnTheWay'
      BY <2>1 DEF IInv, Types, NotWalked, OnTheWay
    <2> QED  BY <2>1, <2>2, <2>3, <2>4, NotLearned DEF IInv,
               AuthorizesWhole, VerdictExact, FailsUndetermined, LearnsOnce, Done
  <1> QED  BY <1>1, <1>2

-------------------------------------------------------------------------------
(* The walk.  Everything it needs to know of the line and the gate. *)
LEMMA Walk ==
    ASSUME IInv, Walking
    PROVE  /\ source.cmds \in Seq(Answers)
           /\ results \in Seq(Verdicts) /\ Len(results) \in Nat
           /\ Index \in 1..Len(source.cmds) /\ Index <= kept
           /\ Current \in Answers
           /\ pc = "walk" /\ ~stopped
           /\ learned = 0 /\ retained = 0
  <1>1. source \in Source /\ source.cmds \in Seq(Answers)
    BY EvaluateAssumption DEF IInv, Types, Source
  <1>2. pc = "walk" /\ ~stopped /\ Len(results) < kept
    BY DEF Walking
  <1>3. kept <= Len(source.cmds) /\ kept \in Nat
    BY <1>2 DEF IInv, Retained, Types
  <1>4. results \in Seq(Verdicts) /\ Len(results) \in Nat
    BY DEF IInv, Types
  <1>5. Len(source.cmds) \in Nat /\ Index \in 1..Len(source.cmds) /\ Index <= kept
    BY <1>1, <1>2, <1>3, <1>4 DEF Index
  <1> QED  BY <1>1, <1>2, <1>4, <1>5, NotLearned DEF Current

(* One more answer, one more result.                                       *)
LEMMA Answer ==
    ASSUME IInv, Walking, NEW failed \in BOOLEAN,
           results' = Append(results, Answered(failed)),
           stopped' = Stops(Answered(failed)),
           failure' \in Failures,
           failure' = "OK" => failure = "OK" /\ ~failed,
           overflow' \in BOOLEAN,
           UNCHANGED <<request, pc, outcome, capped, kept, memory>>
    PROVE  IInv'
  <1>1. /\ source.cmds \in Seq(Answers)
        /\ results \in Seq(Verdicts) /\ Len(results) \in Nat
        /\ Index \in 1..Len(source.cmds) /\ Index <= kept
        /\ Current \in Answers
        /\ pc = "walk" /\ ~stopped /\ learned = 0 /\ retained = 0
    BY Walk
  <1>2. /\ pc' = "walk"
        /\ UNCHANGED <<source, gate, verdict, status, truncated, capped, kept,
                       learned, retained>>
    BY <1>1 DEF request, outcome, memory
  <1>3. Answered(failed) \in {"DENY", "ALLOW", "UNDETERMINED"}
    BY DEF Answered
  <1>4. /\ results' \in Seq(Verdicts) /\ Len(results') = Index
        /\ \A i \in 1..Len(results) : results'[i] = results[i]
        /\ results'[Index] = Answered(failed)
    <2>1. Answered(failed) \in Verdicts
      BY <1>3 DEF Verdicts
    <2> QED  BY <1>1, <2>1 DEF Index
  <1>5. stopped' \in BOOLEAN
    BY DEF Stops
  <1>6. Types'
    BY <1>1, <1>2, <1>4, <1>5 DEF IInv, Types
  <1>7. Retained'
    BY <1>1, <1>2 DEF IInv, Retained
  <1>8. ~failed => Answered(failed) = Walked1(Current)
    BY <1>1 DEF Answered, Walked1, Answers
  <1>9. failure' = "OK" =>
            \A i \in 1..Len(results') : results'[i] = Walked1(source.cmds[i])
    <2>1. SUFFICES ASSUME failure' = "OK", NEW i \in 1..Len(results')
                   PROVE  results'[i] = Walked1(source.cmds[i])
      OBVIOUS
    <2>2. CASE i \in 1..Len(results)
      BY <1>1, <1>4, <2>1, <2>2 DEF IInv, OnTheWay
    <2>3. CASE i = Index
      BY <1>4, <1>8, <2>1, <2>3 DEF Current
    <2> QED  BY <1>1, <1>4, <2>2, <2>3 DEF Index
  <1>10. stopped' =>
             /\ results' # <<>> /\ gate.stop # "all"
             /\ gate.stop = "firstDeny" /\ failure' = "OK" =>
                    source.cmds[Len(results')] = "deny"
    <2>1. results' # <<>>
      BY <1>1, <1>4
    <2>2. stopped' => gate.stop # "all"
      BY DEF Stops
    <2>3. ASSUME stopped', gate.stop = "firstDeny", failure' = "OK"
          PROVE  source.cmds[Len(results')] = "deny"
      <3>1. Answered(failed) = "DENY"
        BY <2>3 DEF Stops
      <3> QED  BY <1>4, <3>1 DEF Answered, Current
    <2> QED  BY <2>1, <2>2, <2>3
  <1>11. OnTheWay'
    BY <1>1, <1>2, <1>4, <1>9, <1>10 DEF OnTheWay
  <1>12. NotWalked' /\ LearnsOnce'
    BY <1>1, <1>2 DEF NotWalked, LearnsOnce
  <1>13. AuthorizesWhole' /\ VerdictExact'
    BY <1>2 DEF AuthorizesWhole, VerdictExact, FailsUndetermined, Done
  <1> QED  BY <1>2, <1>6, <1>7, <1>11, <1>12, <1>13 DEF IInv

LEMMA WalkStep ==
    ASSUME IInv, RenderFails \/ EvaluateCommand \/ SuggestionFails
    PROVE  IInv'
  <1>1. Walking /\ pc = "walk" /\ results \in Seq(Verdicts)
    BY Walk DEF RenderFails, EvaluateCommand, SuggestionFails
  <1>2. Write(1) => overflow' \in BOOLEAN
    BY DEF Write, IInv, Types
  <1>3. CASE RenderFails
    <2>1. results' \in Seq(Verdicts)
      <3>1. "ALLOW" \in Verdicts
        BY DEF Verdicts
      <3> QED  BY <1>1, <1>3, <3>1 DEF RenderFails
    <2>2. UNCHANGED <<overflow, capped, kept, stopped, failure>>
      BY <1>3 DEF RenderFails
    <2>3. CASE Return("UNDETERMINED", "TRUNC", TRUE)
      BY <1>1, <2>1, <2>2, <2>3, FailureReturned DEF IInv, Types
    <2>4. CASE Return("UNDETERMINED", "PARSE", FALSE)
      BY <1>1, <2>1, <2>2, <2>4, FailureReturned DEF IInv, Types
    <2> QED  BY <1>3, <2>3, <2>4 DEF RenderFails
  <1>4. CASE EvaluateCommand
    <2>1. PICK failed \in BOOLEAN, e \in {"MEMORY", "PARSE"}, n \in Strings :
             /\ results' = Append(results, Answered(failed))
             /\ failure' = IF failed THEN e ELSE failure
             /\ stopped' = Stops(Answered(failed))
             /\ Write(n)
      BY <1>4 DEF EvaluateCommand
    <2>2. overflow' \in BOOLEAN
      BY <2>1 DEF Write, IInv, Types
    <2>3. failure' \in Failures /\ (failure' = "OK" => failure = "OK" /\ ~failed)
      BY <2>1 DEF IInv, Types, Failures
    <2>4. UNCHANGED <<request, pc, outcome, capped, kept, memory>>
      BY <1>4 DEF EvaluateCommand
    <2> QED  BY <1>1, <2>1, <2>2, <2>3, <2>4, Answer
  <1>5. CASE SuggestionFails
    <2>1. /\ results' = Append(results, Answered(FALSE))
          /\ overflow' \in BOOLEAN /\ UNCHANGED <<capped, kept>>
      BY <1>2, <1>5 DEF SuggestionFails
    <2>2. CASE Return("UNDETERMINED", "TRUNC", TRUE) /\ UNCHANGED <<stopped, failure>>
      <3>1. Answered(FALSE) \in Verdicts
        BY DEF Answered, Verdicts
      <3>2. results' \in Seq(Verdicts)
        BY <1>1, <2>1, <3>1, Appended
      <3> QED  BY <1>1, <2>1, <2>2, <3>2, FailureReturned DEF IInv, Types
    <2>3. CASE /\ failure' \in (IF failure = "OK" THEN {"MEMORY", "PARSE"}
                                                  ELSE {failure})
               /\ stopped' = Stops(Answered(FALSE))
               /\ UNCHANGED <<request, pc, calls, outcome, memory>>
      <3>1. failure' \in Failures /\ failure' # "OK"
        BY <2>3 DEF IInv, Types, Failures
      <3> QED  BY <1>1, <2>1, <2>3, <3>1, Answer
    <2> QED  BY <1>5, <2>2, <2>3 DEF SuggestionFails
  <1> QED  BY <1>3, <1>4, <1>5

(* The end of the walk: the routes of substitutions.                       *)
LEMMA RouteStep ==
    ASSUME IInv, Walked
    PROVE  IInv'
  <1>1. /\ pc = "walk" /\ pc' = "conclude"
        /\ UNCHANGED <<source, gate, overflow, verdict, status, truncated, kept,
                       stopped, failure, learned, retained>>
    BY DEF Walked, request, outcome, memory
  <1>2. /\ results \in Seq(Verdicts) /\ Len(results) \in Nat
        /\ Len(results) <= kept /\ kept \in Nat /\ kept <= Len(source.cmds)
        /\ source \in Source /\ source.cmds \in Seq(Answers)
    BY <1>1, EvaluateAssumption DEF IInv, Types, OnTheWay, Retained, Source
  <1>3. /\ results' \in Seq(Verdicts) /\ Len(results') = Len(results)
        /\ \A i \in 1..Len(results) :
              results'[i] = (IF source.cmds[i] = "allowWord" /\ results[i] = "ALLOW"
                             THEN "ALLOW_CONDITIONAL" ELSE results[i])
    <2>1. "ALLOW_CONDITIONAL" \in Verdicts
      BY DEF Verdicts
    <2> QED  BY <1>2, <2>1 DEF Walked
  <1>4. capped' = (capped \/ (~stopped /\ Len(results) < kept))
    BY DEF Walked
  <1>5. Types'
    BY <1>1, <1>3, <1>4 DEF IInv, Types, Steps
  <1>6. Retained'
    BY <1>1, <1>4 DEF IInv, Retained
  <1>7. failure = "OK" =>
            \A i \in 1..Len(results') : results'[i] = Routed(source.cmds[i])
    <2>1. SUFFICES ASSUME failure = "OK", NEW i \in 1..Len(results)
                   PROVE  results'[i] = Routed(source.cmds[i])
      BY <1>3
    <2>2. results[i] = Walked1(source.cmds[i])
      BY <1>1, <2>1 DEF IInv, OnTheWay
    <2>3. source.cmds[i] \in Answers
      BY <1>2
    <2> QED  BY <1>3, <2>2, <2>3 DEF Walked1, Routed, Answers
  <1>8. ~capped' => stopped \/ Len(results') = kept
    <2>1. ~capped' => stopped \/ ~(Len(results) < kept)
      BY <1>4
    <2> QED  BY <1>2, <1>3, <2>1
  <1>9. stopped =>
            /\ results' # <<>> /\ gate.stop # "all"
            /\ gate.stop = "firstDeny" /\ failure = "OK" =>
                   source.cmds[Len(results')] = "deny"
    BY <1>1, <1>2, <1>3 DEF IInv, OnTheWay
  <1>10. OnTheWay'
    BY <1>1, <1>2, <1>3, <1>7, <1>8, <1>9 DEF OnTheWay
  <1>11. NotWalked' /\ LearnsOnce' /\ AuthorizesWhole' /\ VerdictExact'
    BY <1>1, NotLearned DEF NotWalked, LearnsOnce, AuthorizesWhole,
         VerdictExact, FailsUndetermined, Done
  <1> QED  BY <1>1, <1>5, <1>6, <1>10, <1>11 DEF IInv

-------------------------------------------------------------------------------
(* The results of a walk that nothing cut or failed.                       *)
LEMMA Concluded ==
    ASSUME IInv, pc = "conclude", ~capped, failure = "OK"
    PROVE  /\ source.cmds \in Seq(Answers) /\ Len(results) \in Nat
           /\ Len(results) <= Len(source.cmds)
           /\ ~ShortCircuited => Len(results) = Len(source.cmds)
           /\ stopped => results # <<>>
           /\ gate.stop \in {"all", "firstDeny"}
                /\ (\E i \in 1..Len(source.cmds) : source.cmds[i] = "deny") =>
                  "deny" \in Seen
           /\ Given("DENY") <=> "deny" \in Seen
           /\ Given("UNDETERMINED") <=> "none" \in Seen
           /\ Given("ALLOW_CONDITIONAL") => source.word
  <1>1. source \in Source /\ source.cmds \in Seq(Answers) /\ gate \in Gate
    BY EvaluateAssumption DEF IInv, Types, Source
  <1>2. /\ results \in Seq(Verdicts) /\ Len(results) \in Nat
        /\ kept = Len(source.cmds) /\ Len(results) <= kept
        /\ stopped \/ Len(results) = kept
        /\ \A i \in 1..Len(results) : results[i] = Routed(source.cmds[i])
    BY DEF IInv, Types, Retained, OnTheWay
  <1>3. ~ShortCircuited => Len(results) = Len(source.cmds)
    BY <1>1, <1>2 DEF ShortCircuited
  <1>4. stopped =>
            /\ results # <<>> /\ gate.stop # "all"
            /\ gate.stop = "firstDeny" => source.cmds[Len(results)] = "deny"
    BY DEF IInv, OnTheWay
  <1>5. ASSUME gate.stop \in {"all", "firstDeny"},
               \E i \in 1..Len(source.cmds) : source.cmds[i] = "deny"
        PROVE  "deny" \in Seen
    <2>1. CASE stopped
      <3>1. source.cmds[Len(results)] = "deny" /\ results # <<>>
        BY <1>4, <1>5, <2>1
      <3>2. Len(results) \in 1..Len(results)
        BY <1>2, <3>1
      <3> QED  BY <3>1, <3>2 DEF Seen
    <2>2. CASE ~stopped
      BY <1>2, <1>5, <2>2 DEF Seen
    <2> QED  BY <2>1, <2>2
  <1>6. \A i \in 1..Len(results) : source.cmds[i] \in Answers
    BY <1>1, <1>2
  <1>7. \A i \in 1..Len(results) :
            /\ results[i] = "DENY" <=> source.cmds[i] = "deny"
            /\ results[i] = "UNDETERMINED" <=> source.cmds[i] = "none"
            /\ results[i] = "ALLOW_CONDITIONAL" => source.cmds[i] = "allowWord"
    BY <1>2, <1>6 DEF Routed, Walked1, Answers
  <1>8. \A i \in 1..Len(results) : source.cmds[i] = "allowWord" => source.word
    <2>1. \A i \in 1..Len(source.cmds) : source.cmds[i] = "allowWord" => source.word
      BY EvaluateAssumption DEF IInv, Types
    <2> QED  BY <1>1, <1>2, <2>1
  <1> QED  BY <1>1, <1>2, <1>3, <1>4, <1>5, <1>7, <1>8 DEF Given, Seen

LEMMA ConcludeStep ==
    ASSUME IInv, Conclude
    PROVE  IInv'
  <1>1. pc = "conclude" /\ capped' = capped /\ learned = 0 /\ retained = 0
    BY NotLearned DEF Conclude
  <1>2. ASSUME NEW s \in {"TRUNC", "MEMORY", "PARSE", "EXPAND"}, NEW t \in BOOLEAN,
               s = "TRUNC" => t, Undetermined(s, t)
        PROVE  IInv'
    <2>1. Return("UNDETERMINED", s, t)
          /\ UNCHANGED <<overflow, results, kept, stopped, failure>>
      BY <1>2 DEF Undetermined, walk
    <2> QED  BY <1>1, <1>2, <2>1, FailureReturned DEF IInv, Types
  <1>3. CASE capped /\ Undetermined("TRUNC", TRUE)
    BY <1>2, <1>3
  <1>4. CASE ~capped /\ failure # "OK" /\ Undetermined(failure, overflow)
    <2>1. failure \in {"MEMORY", "PARSE"} /\ overflow \in BOOLEAN
      BY <1>1, <1>4 DEF IInv, Types, Failures
    <2> QED  BY <1>2, <1>4, <2>1
  <1>5. CASE /\ ~capped /\ failure = "OK" /\ results = <<>> /\ ~source.io
             /\ IF overflow THEN Undetermined("TRUNC", TRUE)
                ELSE /\ Return(IF source.arith THEN "UNDETERMINED" ELSE "ALLOW",
                               "OK", FALSE)
                     /\ UNCHANGED <<room, overflow, walk, detected>>
    <2>1. CASE overflow
      BY <1>2, <1>5, <2>1
    <2>2. CASE ~overflow
      <3>1. /\ Return(IF source.arith THEN "UNDETERMINED" ELSE "ALLOW", "OK", FALSE)
            /\ UNCHANGED <<overflow, results, kept, stopped, failure>>
        BY <1>5, <2>2 DEF walk
      <3>2. /\ pc' = "done" /\ status' = "OK" /\ truncated' = FALSE /\ ~capped'
            /\ verdict' = (IF source.arith THEN "UNDETERMINED" ELSE "ALLOW")
            /\ learned' = 0 /\ retained' = 0
            /\ UNCHANGED <<source, gate>>
        BY <1>1, <1>5, <3>1 DEF Return, request, memory
      <3>3. verdict' \in Verdicts /\ status' \in Statuses
        BY <3>2 DEF Verdicts, Statuses
      <3>4. Types'
        BY <1>1, <1>5, <3>1, <3>2, <3>3 DEF IInv, Types, Steps
      <3>5. /\ ~stopped /\ Len(source.cmds) = 0 /\ source.cmds = <<>> /\ ~source.word
            /\ source.text = "accepted"
        <4>1. ~stopped /\ Len(source.cmds) = 0 /\ source.cmds \in Seq(Answers)
          BY <1>1, <1>5, Concluded DEF ShortCircuited
        <4> QED  BY <1>1, <4>1, EvaluateAssumption DEF IInv, Types, Retained
      <3>6. Settled'
        <4>1. Len(results') = 0 /\ Seen' = {}
          BY <1>5, <3>1 DEF Seen
        <4>2. verdict' = Expected'
          BY <1>5, <3>2, <3>5, <4>1 DEF Expected
        <4> QED  BY <3>2, <3>5, <4>1, <4>2 DEF Settled
      <3>7. Done'
        BY <3>2 DEF Done
      <3>8. AuthorizesWhole' /\ VerdictExact'
        BY <3>4, <3>6, <3>7, SettledReturned, PTL
      <3> QED  BY <3>2, <3>4, <3>8 DEF IInv, NotWalked, Retained, OnTheWay,
                 LearnsOnce, Done
    <2> QED  BY <2>1, <2>2 DEF IInv, Types
  <1>6. CASE /\ ~capped /\ failure = "OK" /\ (results # <<>> \/ source.io)
             /\ Write(IF source.io /\ ~Given("DENY") THEN 1 ELSE 0)
             /\ verdict' = IF overflow' THEN "UNDETERMINED" ELSE Aggregate
             /\ status'  = IF overflow' THEN "TRUNC" ELSE "OK"
             /\ truncated' = overflow'
             /\ pc' = IF overflow' THEN "done" ELSE "learn"
             /\ UNCHANGED <<request, calls, walk, detected, memory>>
    <2>1. overflow' \in BOOLEAN
      BY <1>6 DEF Write, IInv, Types
    <2>2. UNCHANGED <<source, gate, results, kept, stopped, failure>>
          /\ learned' = 0 /\ retained' = 0
      BY <1>1, <1>6 DEF request, walk, memory
    <2>3. CASE overflow'
      <3>1. Return("UNDETERMINED", "TRUNC", TRUE)
        BY <1>6, <2>1, <2>3 DEF Return
      <3> QED  BY <1>1, <2>1, <2>2, <3>1, FailureReturned DEF IInv, Types
    <2>4. CASE ~overflow'
      <3>1. /\ pc' = "learn" /\ verdict' = Aggregate /\ status' = "OK"
            /\ ~truncated' /\ truncated' \in BOOLEAN /\ ~capped'
        BY <1>1, <1>6, <2>1, <2>4
      <3>2. Aggregate = Expected
        BY <1>1, <1>6, Concluded DEF Aggregate, Expected
      <3>3. verdict' \in Verdicts /\ status' \in Statuses
        BY <3>1 DEF Aggregate, Verdicts, Statuses
      <3>4. Types'
        BY <1>1, <2>1, <2>2, <3>1, <3>3 DEF IInv, Types, Steps
      <3>5. source.text = "accepted"
        BY <1>1 DEF IInv, Retained
      <3>6. Settled'
        BY <1>1, <1>6, <2>2, <3>1, <3>2, <3>5, Concluded
           DEF Settled, Expected, Seen, ShortCircuited
      <3> QED  BY <2>2, <3>1, <3>4, <3>6 DEF IInv, NotWalked, Retained, OnTheWay,
                 AuthorizesWhole, VerdictExact, FailsUndetermined, LearnsOnce, Done
    <2> QED  BY <2>3, <2>4
  <1> QED  BY <1>3, <1>4, <1>5, <1>6 DEF Conclude

(* The deferred learning of a verdict that is settled.                     *)
LEMMA LearnStep ==
    ASSUME IInv, Learn
    PROVE  IInv'
  <1>1. /\ pc = "learn" /\ pc' = "done" /\ Settled
        /\ learned = 0 /\ retained = 0
        /\ UNCHANGED <<source, gate, overflow, capped, results, kept, stopped,
                       failure>>
    BY NotLearned DEF Learn, request, walk, IInv
  <1>2. learned' \in 0..1 /\ retained' \in 0..1
    BY <1>1 DEF Learn, memory, Record
  <1>3. CASE UNCHANGED outcome
    <2>1. Types' /\ Done'
      BY <1>1, <1>2, <1>3 DEF IInv, Types, Steps, outcome, Done
    <2>2. Settled'
      BY <1>1, <1>3 DEF outcome, Settled, Expected, Seen, ShortCircuited
    <2>3. AuthorizesWhole' /\ VerdictExact'
      BY <2>1, <2>2, SettledReturned, PTL
    <2>4. status' = "OK" /\ ~truncated'
      BY <2>2 DEF Settled
    <2>5. LearnsOnce'
      <3>1. learned' <= 1 /\ retained' <= 1
        BY <1>2
      <3>2. Done' /\ status' = "OK" /\ ~truncated'
        BY <2>1, <2>4
      <3> QED  BY <3>1, <3>2 DEF LearnsOnce
    <2> QED  BY <1>1, <2>1, <2>2, <2>3, <2>5 DEF IInv, NotWalked, Retained, OnTheWay
  <1>4. CASE /\ verdict' = "UNDETERMINED" /\ status' = "PARSE"
             /\ UNCHANGED <<memory, truncated>>
    <2>1. Return("UNDETERMINED", "PARSE", FALSE)
      BY <1>1, <1>4 DEF Return, Learn, Settled, IInv, Types
    <2> QED  BY <1>1, <2>1, FailureReturned DEF IInv, Types
  <1> QED  BY <1>3, <1>4 DEF Learn

-------------------------------------------------------------------------------
LEMMA Inductive == IInv /\ [Next]_vars => IInv'
  <1> SUFFICES ASSUME IInv, [Next]_vars PROVE IInv'
    OBVIOUS
  <1>1. CASE \E capacity \in Capacities : Call(capacity)
    BY <1>1, CallStep
  <1>2. CASE Blank \/ ParseRefuses \/ ParseExhausted \/ Parsed
    BY <1>2, BlankStep, ParseStep
  <1>3. CASE GraphFails \/ GraphRefuses \/ ViolationsOverflow \/ GraphBuilt
    BY <1>3, GraphStep
  <1>4. CASE ScoreFails \/ Scored
    BY <1>4, ScoreStep
  <1>5. CASE RenderFails \/ EvaluateCommand \/ SuggestionFails \/ Walked
    BY <1>5, WalkStep, RouteStep
  <1>6. CASE Conclude \/ Learn
    BY <1>6, ConcludeStep, LearnStep
  <1>7. CASE UNCHANGED vars
    BY <1>7 DEF vars, request, outcome, walk, memory, IInv, Types, NotWalked,
         Retained, OnTheWay, Settled, Expected, Seen, ShortCircuited,
         AuthorizesWhole, VerdictExact, FailsUndetermined, LearnsOnce, Done
  <1> QED  BY <1>1, <1>2, <1>3, <1>4, <1>5, <1>6, <1>7 DEF Next

THEOREM EvaluateInvariance == Spec => []IInv
  BY Initially, Inductive, PTL DEF Spec

(* A permission to run a line that was not cut short covers every command  *)
(* of it, whatever failed on the way: each was asked and is allowed.       *)
THEOREM PermitsWhole == Spec => []AuthorizesWhole
  <1>1. IInv => AuthorizesWhole
    BY DEF IInv
  <1> QED  BY <1>1, EvaluateInvariance, PTL

(* The verdict is that of the precedence the header documents, and no      *)
(* failure or truncation of sg_gate_evaluate leaves it at ALLOW.           *)
THEOREM VerdictIsExact == Spec => []VerdictExact
  <1>1. IInv => VerdictExact
    BY DEF IInv
  <1> QED  BY <1>1, EvaluateInvariance, PTL

(* Over all calls a caller makes for a line, models and calibration take   *)
(* it at most once, and only with a complete result.                       *)
THEOREM CountsOnce == Spec => []LearnsOnce
  <1>1. IInv => LearnsOnce
    BY DEF IInv
  <1> QED  BY <1>1, EvaluateInvariance, PTL

-------------------------------------------------------------------------------
(* Reading a command line: the inductive invariant *)

ScopeFields == {"status", "flow", "active", "group", "next", "async", "negated",
                "pipe", "launch"}
ShellFields == {"real", "dir", "group", "pipe", "launch"}

(* The flow knows the directory that goes with an outcome, or that it does *)
(* not know it.                                                            *)
Names(flow, o, dir) == o \in DOMAIN flow /\ flow[o] \in {dir, Unknown}

(* A mask that is sure to hold a status as far as operators tell it.       *)
Covers(mask, o) == \/ o \in mask
                   \/ o \in Returning /\ mask \cap Returning # {}

(* A scope and the shell that runs it.  In a later stage of a pipeline the *)
(* first status is that of the stage before, so the shell may have another *)
(* one; straight says that there is no such stage around.                  *)
StatusAgrees(s, h, straight) ==
    IF h.real = Off THEN s.active # "always"
    ELSE /\ s.active # "never"
         /\ Names(s.flow, h.real, h.dir)
         /\ IF s.next # "first" THEN h.real \in s.status
            ELSE /\ h.real \in Returning
                 /\ s.status \subseteq Returning /\ s.status # {}
                 /\ straight => h.real \in s.status

(* Between two stages of a pipeline: what its first stage was entered with. *)
PipeAgrees(s, h) ==
    /\ h.pipe.runs \in BOOLEAN /\ s.pipe.run \subseteq Returning
    /\ h.pipe.runs =>
           /\ h.real \in Returning
           /\ s.pipe.exec # "never"
           /\ h.pipe.real \in s.pipe.run
           /\ Names(s.pipe.flow, h.pipe.real, h.pipe.dir)
    /\ ~h.pipe.runs /\ h.real # Off =>
           /\ s.pipe.exec # "always"
           /\ h.real \notin s.pipe.run
           /\ Names(s.pipe.flow, h.real, h.dir)

(* In a background list: what the list was entered with. *)
LaunchAgrees(s, h) ==
    /\ h.launch.real \in Outcomes \cup {Off}
    /\ h.launch.real = Off <=> h.real = Off
    /\ h.launch.real # Off =>
           /\ Covers(s.launch.status, h.launch.real)
           /\ Names(s.launch.flow, h.launch.real, h.launch.dir)

Agrees(s, h, straight) ==
    /\ DOMAIN s = ScopeFields /\ DOMAIN h = ShellFields
    /\ h.real \in Outcomes \cup {Off}
    /\ s.next \in {"first"} \cup Continues \cup Ends
    /\ s.async \in BOOLEAN /\ s.negated \in BOOLEAN
    /\ StatusAgrees(s, h, straight)
    /\ s.next = "|" => PipeAgrees(s, h)
    /\ s.async => LaunchAgrees(s, h)

(* A stage as the text may continue a scope with it. *)
Continuing(s, stage) ==
    /\ stage.conn = s.next
    /\ stage.next \in Continues \cup Ends
    /\ stage.async \in BOOLEAN /\ stage.negated \in BOOLEAN
    /\ stage.conn \in Continues => stage.async = s.async
    /\ stage.next \in Ends => (stage.next = "&") = stage.async

(* What the analysis says of the entry to a stage, and what the shell h    *)
(* does there: it has found a status, and takes its turn or skips.         *)
Matched(h, stage, entry, turn, found, straight) ==
    /\ turn.runs \in BOOLEAN
    /\ found \in Outcomes \cup {Off}
    /\ found = Off <=> h.real = Off
    /\ entry.run \subseteq Returning
    /\ stage.conn # "|" => entry.run = RunMask(stage.conn)
    /\ entry.active = "always" => turn.runs
    /\ turn.runs =>
           /\ found # Off
           /\ entry.active # "never" /\ entry.exec # "never"
           /\ turn.real \in entry.run
           /\ Names(entry.flow, turn.real, turn.dir)
           /\ entry.dir \in {turn.dir, Unknown}
           /\ entry.status \cap RunMask(stage.conn) # {}
           /\ stage.conn # "|" =>
                  /\ turn.real = found /\ turn.dir = h.dir
                  /\ straight \/ stage.conn # "first" => found \in entry.status
    /\ ~turn.runs /\ found # Off =>
           /\ found \in entry.status
           /\ entry.exec # "always"
           /\ found \notin entry.run
           /\ Names(entry.flow, found, h.dir)
    /\ stage.conn \notin Continues /\ found # Off =>
           /\ Covers(entry.status, found)
           /\ Names(entry.flow, found, h.dir)

Straight(d) == \A i \in 1..d : scopes[i].group.stage.conn # "|"

(* A group, the stage it is in its parent, and its shell. *)
GroupAgrees(d) ==
    LET of == scopes[d].group
        by == shells[d].group
    IN /\ by.stage = of.stage /\ by.child = of.child /\ of.child \in BOOLEAN
       /\ Child(of.stage) => of.child
       /\ Continuing(scopes[d - 1], of.stage)
       /\ Matched(shells[d - 1], of.stage, of.entry, by.turn, by.found,
                  Straight(d - 1))
       /\ by.turn.runs <=> shells[d].real # Off

RunIInv ==
    /\ depth \in 0..MaxDepth
    /\ DOMAIN scopes = 0..MaxDepth /\ DOMAIN shells = 0..MaxDepth
    /\ \A d \in 0..depth : Agrees(scopes[d], shells[d], Straight(d))
    /\ \A d \in 1..depth : GroupAgrees(d)

-------------------------------------------------------------------------------
(* Flows *)

(* dep_cwd_join names a directory only if it is that of all. *)
LEMMA JoinNames ==
    ASSUME NEW set, NEW x \in set, NEW dir, x \in {dir, Unknown}
    PROVE  Join(set) \in {dir, Unknown}
<1>1. CASE \E d \in set : set = {d}
  <2>1. (CHOOSE d \in set : TRUE) = x
    BY <1>1
  <2> QED BY <1>1, <2>1 DEF Join
<1>2. CASE ~ \E d \in set : set = {d}
  BY <1>2 DEF Join
<1> QED BY <1>1, <1>2

LEMMA FlowNames ==
    ASSUME NEW pairs, NEW o, NEW x, <<o, x>> \in pairs,
           NEW dir, x \in {dir, Unknown}
    PROVE  Names(Flow(pairs), o, dir)
<1> DEFINE dirs == {p[2] : p \in {q \in pairs : q[1] = o}}
<1>1. o \in {p[1] : p \in pairs}
  <2>1. <<o, x>>[1] = o
    OBVIOUS
  <2> QED BY <2>1
<1>2. x \in dirs
  <2>1. <<o, x>>[1] = o /\ <<o, x>>[2] = x
    OBVIOUS
  <2> QED BY <2>1
<1> HIDE DEF dirs
<1>3. Join(dirs) \in {dir, Unknown}
  BY <1>2, JoinNames
<1> QED BY <1>1, <1>3 DEF Names, Flow, dirs

LEMMA SelectedNames ==
    ASSUME NEW flow, NEW mask, NEW o \in mask, NEW dir, Names(flow, o, dir)
    PROVE  Selected(flow, mask) \in {dir, Unknown}
<1>1. flow[o] \in {flow[p] : p \in DOMAIN flow \cap mask}
  BY DEF Names
<1> QED BY <1>1, JoinNames DEF Names, Selected

LEMMA PairKept ==
    ASSUME NEW flow, NEW mask, NEW o \in mask, NEW dir, Names(flow, o, dir)
    PROVE  <<o, flow[o]>> \in PairsOf(flow, mask) /\ flow[o] \in {dir, Unknown}
BY DEF Names, PairsOf

-------------------------------------------------------------------------------
(* Entering a stage *)

(* The stages that the text may offer continue the innermost scope. *)
LEMMA StagesContinue ==
    ASSUME NEW stage \in Stages, Here.async \in BOOLEAN, Here.negated \in BOOLEAN
    PROVE  /\ Continuing(Here, stage)
           /\ stage.unit \in BOOLEAN
           /\ stage.unit => Here.next \in Ends
<1>1. /\ stage.conn = Here.next /\ stage.next \in Continues \cup Ends
      /\ stage.unit \in Units
      /\ stage.async \in IF Here.next \in Continues THEN {Here.async} ELSE BOOLEAN
      /\ stage.negated \in IF Here.next = "|" THEN {Here.negated} ELSE BOOLEAN
      /\ stage.next \in Ends => (stage.next = "&") = stage.async
  BY DEF Stages
<1>2. stage.unit \in BOOLEAN /\ (stage.unit => Here.next \in Ends)
  BY <1>1 DEF Units
<1> QED BY <1>1, <1>2 DEF Continuing

(* A stage that is no later stage of a pipeline is entered with the status *)
(* and the flow of its scope, recovered, which agree with what its shell   *)
(* finds.                                                                  *)
LEMMA Finding ==
    ASSUME NEW stage, NEW straight, Agrees(Here, Me, straight),
           stage.conn = Here.next, stage.unit \in BOOLEAN,
           stage.unit => Here.next \in Ends
    PROVE  LET mask  == {Recovered(stage, o) : o \in Here.status}
               flow  == Flow({<<Recovered(stage, o), Here.flow[o]>> :
                                o \in DOMAIN Here.flow})
               found == Found(stage)
           IN /\ found \in Outcomes \cup {Off}
              /\ found = Off <=> Me.real = Off
              /\ found # Off => Names(flow, found, Me.dir)
              /\ found # Off /\ Here.next # "first" => found \in mask
              /\ found # Off /\ Here.next = "first" =>
                     /\ found \in Returning
                     /\ mask = Here.status
              /\ ~stage.unit => found = Me.real
<1> DEFINE mask == {Recovered(stage, o) : o \in Here.status}
           pairs == {<<Recovered(stage, o), Here.flow[o]>> : o \in DOMAIN Here.flow}
           found == Found(stage)
<1>1. /\ found \in Outcomes \cup {Off}
      /\ found = Off <=> Me.real = Off
      /\ ~stage.unit => found = Me.real
      /\ found = Recovered(stage, Me.real)
  BY DEF Agrees, Found, Recovered, Off, Outcomes, Returning, Ending
<1>2. ASSUME found # Off
      PROVE  Names(Flow(pairs), found, Me.dir)
  <2>1. Names(Here.flow, Me.real, Me.dir)
    BY <1>1, <1>2 DEF Agrees, StatusAgrees
  <2>2. <<found, Here.flow[Me.real]>> \in pairs
    BY <2>1, <1>1 DEF Names
  <2>3. Here.flow[Me.real] \in {Me.dir, Unknown}
    BY <2>1 DEF Names
  <2> HIDE DEF pairs, found
  <2> QED BY <2>2, <2>3, FlowNames
<1>3. found # Off /\ Here.next # "first" => found \in mask
  BY <1>1 DEF Agrees, StatusAgrees
<1>4. ASSUME found # Off, Here.next = "first"
      PROVE  found \in Returning /\ mask = Here.status
  <2>1. ~stage.unit
    BY <1>4 DEF Ends
  <2>2. \A o : Recovered(stage, o) = o
    BY <2>1 DEF Recovered
  <2> QED BY <1>1, <1>4, <2>1, <2>2 DEF Agrees, StatusAgrees
<1> QED BY <1>1, <1>2, <1>3, <1>4

LEMMA RunMasks ==
    ASSUME NEW conn
    PROVE  /\ RunMask(conn) \subseteq Returning
           /\ conn \notin {"&&", "||"} => RunMask(conn) = Returning
BY DEF RunMask, Returning

LEMMA EnteringFirst ==
    ASSUME NEW stage, NEW straight, Agrees(Here, Me, straight),
           stage.conn = Here.next, stage.conn # "|",
           stage.unit \in BOOLEAN, stage.unit => Here.next \in Ends
    PROVE  Matched(Me, stage, Entry(stage), Turn(stage), Found(stage), straight)
<1> DEFINE mask  == {Recovered(stage, o) : o \in Here.status}
           flow  == Flow({<<Recovered(stage, o), Here.flow[o]>> :
                            o \in DOMAIN Here.flow})
           found == Found(stage)
           run   == RunMask(stage.conn)
           entry == Entry(stage)
           turn  == Turn(stage)
<1>1. /\ found \in Outcomes \cup {Off}
      /\ found = Off <=> Me.real = Off
      /\ found # Off => Names(flow, found, Me.dir)
      /\ found # Off /\ Here.next # "first" => found \in mask
      /\ found # Off /\ Here.next = "first" =>
             /\ found \in Returning
             /\ mask = Here.status
  BY Finding
<1>2. /\ entry.status = mask /\ entry.flow = flow /\ entry.run = run
      /\ entry.exec = Certainty(stage.conn, mask)
      /\ entry.active = Compose(entry.exec, Here.active)
      /\ entry.dir = Selected(flow, run)
  BY DEF Entry
<1>3. /\ turn.runs = (found \in run)
      /\ turn.real = found /\ turn.dir = Me.dir
  BY DEF Turn, RunMask, Returning
<1>4. run \subseteq Returning
  BY RunMasks
<1>5. ASSUME found # Off, Here.next = "first"
      PROVE  /\ mask # {} /\ mask \subseteq Returning /\ run = Returning
             /\ found \in Returning
             /\ straight => found \in mask
  <2>1. run = Returning
    BY <1>5, RunMasks
  <2>2. /\ Me.real # Off /\ Here.status \subseteq Returning /\ Here.status # {}
        /\ straight => Me.real \in Here.status
    BY <1>1, <1>5 DEF Agrees, StatusAgrees
  <2>3. found = Me.real
    BY <1>5, Finding DEF Ends
  <2> QED BY <1>1, <1>5, <2>1, <2>2, <2>3
<1>6. Me.real = Off => Here.active # "always"
  BY DEF Agrees, StatusAgrees
<1>7. Me.real # Off => Here.active # "never"
  BY DEF Agrees, StatusAgrees
<1> HIDE DEF mask, flow, found, run, entry, turn
<1>8. entry.exec = (IF mask \cap run = {} THEN "never"
                    ELSE IF mask \subseteq run THEN "always" ELSE "maybe")
  BY <1>2 DEF Certainty, run
<1>9. /\ entry.active = "always" => entry.exec = "always" /\ Here.active = "always"
      /\ entry.exec # "never" /\ Here.active # "never" => entry.active # "never"
  BY <1>2 DEF Compose
<1>10. found # Off => mask \cap run # {} \/ found \notin run
  BY <1>1, <1>5
<1>11. ASSUME turn.runs
       PROVE  /\ found # Off
              /\ entry.active # "never" /\ entry.exec # "never"
              /\ entry.dir \in {turn.dir, Unknown}
              /\ entry.status \cap run # {}
              /\ straight \/ stage.conn # "first" => found \in entry.status
  <2>1. found \in run /\ found # Off
    BY <1>3, <1>4, <1>11 DEF Off, Returning
  <2>2. entry.dir \in {turn.dir, Unknown}
    BY <1>1, <1>2, <1>3, <2>1, SelectedNames
  <2>3. mask \cap run # {}
    BY <2>1, <1>10
  <2>4. entry.exec # "never"
    BY <2>3, <1>8
  <2>5. entry.active # "never"
    BY <2>1, <2>4, <1>1, <1>7, <1>9
  <2>6. straight \/ stage.conn # "first" => found \in mask
    BY <1>1, <1>5, <2>1
  <2> QED BY <2>1, <2>2, <2>3, <2>4, <2>5, <2>6, <1>2
<1>12. ASSUME ~turn.runs, found # Off
       PROVE  /\ found \in mask /\ found \notin run /\ entry.exec # "always"
  <2>1. found \notin run
    BY <1>3, <1>12
  <2>2. Here.next # "first"
    BY <2>1, <1>12, <1>5
  <2>3. found \in mask
    BY <2>2, <1>1, <1>12
  <2> QED BY <2>1, <2>3, <1>8
<1>13. entry.active = "always" => turn.runs
  BY <1>1, <1>6, <1>9, <1>12
<1>14. found # Off => Covers(mask, found)
  BY <1>1, <1>5 DEF Covers
<1>15. turn.runs \in BOOLEAN
  BY <1>3
<1> QED
  BY <1>1, <1>2, <1>3, <1>4, <1>11, <1>12, <1>13, <1>14, <1>15
     DEF Matched, run, entry, turn, found

LEMMA EnteringLater ==
    ASSUME NEW stage, NEW straight, Agrees(Here, Me, straight),
           stage.conn = Here.next, stage.conn = "|",
           stage.unit \in BOOLEAN, stage.unit => Here.next \in Ends
    PROVE  Matched(Me, stage, Entry(stage), Turn(stage), Found(stage), straight)
<1> DEFINE found == Found(stage)
           pipe  == Here.pipe
           entry == Entry(stage)
           turn  == Me.pipe
<1>1. ~stage.unit
  BY DEF Ends
<1>2. found = Me.real /\ found \in Outcomes \cup {Off}
  BY <1>1 DEF Found, Agrees
<1>3. /\ entry.flow = pipe.flow /\ entry.run = pipe.run
      /\ entry.exec = pipe.exec
      /\ entry.active = Compose(entry.exec, Here.active)
      /\ entry.dir = Selected(entry.flow, entry.run)
      /\ entry.status = {Recovered(stage, o) : o \in Here.status}
  BY DEF Entry
<1>4. entry.status = Here.status
  <2>1. \A o : Recovered(stage, o) = o
    BY <1>1 DEF Recovered
  <2> QED BY <1>3, <2>1
<1>5. Turn(stage) = turn
  BY DEF Turn
<1>6. PipeAgrees(Here, Me)
  BY DEF Agrees
<1>7. /\ found = Off => Here.active # "always"
      /\ found # Off => Here.active # "never" /\ found \in Here.status
  BY <1>2 DEF Agrees, StatusAgrees
<1>8. stage.conn \in Continues /\ RunMask(stage.conn) = Returning
  BY RunMasks DEF Continues
<1> HIDE DEF entry
<1>9. /\ entry.active = "always" => entry.exec = "always" /\ Here.active = "always"
      /\ entry.exec # "never" /\ Here.active # "never" => entry.active # "never"
  BY <1>3 DEF Compose
<1>10. ASSUME turn.runs
       PROVE  /\ found # Off
              /\ entry.active # "never" /\ entry.exec # "never"
              /\ turn.real \in entry.run
              /\ Names(entry.flow, turn.real, turn.dir)
              /\ entry.dir \in {turn.dir, Unknown}
              /\ entry.status \cap RunMask(stage.conn) # {}
  <2>1. /\ found \in Returning /\ entry.exec # "never"
        /\ turn.real \in entry.run
        /\ Names(entry.flow, turn.real, turn.dir)
    BY <1>2, <1>3, <1>6, <1>10 DEF PipeAgrees
  <2>2. found # Off
    BY <2>1 DEF Off, Returning
  <2>3. entry.dir \in {turn.dir, Unknown}
    BY <1>3, <2>1, SelectedNames
  <2> QED BY <2>1, <2>2, <2>3, <1>4, <1>7, <1>8, <1>9
<1>11. ASSUME ~turn.runs, found # Off
       PROVE  /\ found \in entry.status /\ entry.exec # "always"
              /\ found \notin entry.run
              /\ Names(entry.flow, found, Me.dir)
  BY <1>2, <1>3, <1>4, <1>6, <1>7, <1>11 DEF PipeAgrees
<1>12. turn.runs \in BOOLEAN /\ entry.run \subseteq Returning
  BY <1>3, <1>6 DEF PipeAgrees
<1>13. entry.active = "always" => turn.runs
  BY <1>7, <1>9, <1>11
<1> QED BY <1>2, <1>5, <1>8, <1>10, <1>11, <1>12, <1>13 DEF Matched, entry, found

(* dep_control_decision and dep_cwd_begin tell the truth of the shell. *)
LEMMA Entering ==
    ASSUME NEW stage \in Stages, NEW straight, Agrees(Here, Me, straight)
    PROVE  /\ Continuing(Here, stage)
           /\ Matched(Me, stage, Entry(stage), Turn(stage), Found(stage), straight)
<1>1. Here.async \in BOOLEAN /\ Here.negated \in BOOLEAN
  BY DEF Agrees
<1>2. /\ Continuing(Here, stage)
      /\ stage.unit \in BOOLEAN
      /\ stage.unit => Here.next \in Ends
  BY <1>1, StagesContinue
<1>3. stage.conn = Here.next
  BY <1>2 DEF Continuing
<1>4. CASE stage.conn = "|"
  BY <1>2, <1>3, <1>4, EnteringLater
<1>5. CASE stage.conn # "|"
  BY <1>2, <1>3, <1>5, EnteringFirst
<1> QED BY <1>2, <1>4, <1>5

-------------------------------------------------------------------------------
(* Leaving a stage *)

(* The status r and the directory in which a stage that ran left its shell *)
(* are among those that the analysis gives it.                             *)
Leaves(stage, entry, own, executed, r, dir) ==
    /\ r \in Outcomes
    /\ r \in Resolve(own, entry.status \cap RunMask(stage.conn))
    /\ \E x \in {dir, Unknown} : <<r, x>> \in executed
    /\ Child(stage) => r \in Returning

(* A background list is entered once: what precedes its first stage. *)
LEMMA Launching ==
    ASSUME NEW s, NEW h, NEW straight, NEW other, NEW stage, NEW entry, NEW turn,
           NEW found,
           Agrees(s, h, other), Continuing(s, stage),
           Matched(h, stage, entry, turn, found, straight), stage.async
    PROVE  LET known  == IF stage.conn \in Continues THEN s.launch
                         ELSE [status |-> entry.status, flow |-> entry.flow]
               launch == IF stage.conn \in {"&&", "||", "|"} THEN h.launch
                         ELSE [real |-> found, dir |-> h.dir]
           IN /\ launch.real \in Outcomes \cup {Off}
              /\ launch.real = Off <=> h.real = Off
              /\ launch.real # Off =>
                     /\ Covers(known.status, launch.real)
                     /\ Names(known.flow, launch.real, launch.dir)
<1>1. CASE stage.conn \in Continues
  <2>1. s.async /\ LaunchAgrees(s, h)
    BY <1>1 DEF Agrees, Continuing
  <2> QED BY <1>1, <2>1 DEF LaunchAgrees, Continues
<1>2. CASE stage.conn \notin Continues
  BY <1>2 DEF Matched, Continues
<1> QED BY <1>1, <1>2

(* The shell that waits for no list resumes where the list was entered. *)
LEMMA Resuming ==
    ASSUME NEW mask, NEW flow, NEW o \in Outcomes, NEW dir,
           Covers(mask, o), Names(flow, o, dir)
    PROVE  LET real == IF o \in {"ok", "fail"} THEN "ok" ELSE o
           IN real \in Launched(mask) /\ Names(Resumed(flow), real, dir)
<1>1. CASE o \in Returning
  <2>1. "ok" \in Launched(mask)
    BY <1>1 DEF Covers, Launched, Returning
  <2>2. Selected(flow, Returning) \in {dir, Unknown}
    BY <1>1, SelectedNames
  <2>3. DOMAIN flow \cap Returning # {}
    BY <1>1 DEF Names
  <2> DEFINE pairs == PairsOf(flow, Ending)
                        \cup IF DOMAIN flow \cap Returning = {} THEN {}
                             ELSE {<<"ok", Selected(flow, Returning)>>}
  <2>4. <<"ok", Selected(flow, Returning)>> \in pairs
    BY <2>3
  <2>5. Resumed(flow) = Flow(pairs)
    BY DEF Resumed
  <2> HIDE DEF pairs
  <2>6. Names(Resumed(flow), "ok", dir)
    BY <2>2, <2>4, <2>5, FlowNames
  <2> QED BY <1>1, <2>1, <2>6 DEF Returning
<1>2. CASE o \notin Returning
  <2>1. o \in Ending
    BY <1>2 DEF Outcomes
  <2>2. o \in Launched(mask)
    BY <1>2, <2>1 DEF Covers, Launched
  <2> DEFINE pairs == PairsOf(flow, Ending)
                        \cup IF DOMAIN flow \cap Returning = {} THEN {}
                             ELSE {<<"ok", Selected(flow, Returning)>>}
  <2>3. <<o, flow[o]>> \in pairs /\ flow[o] \in {dir, Unknown}
    BY <2>1, PairKept
  <2>4. Resumed(flow) = Flow(pairs)
    BY DEF Resumed
  <2> HIDE DEF pairs
  <2>5. Names(Resumed(flow), o, dir)
    BY <2>3, <2>4, FlowNames
  <2> QED BY <1>2, <2>2, <2>5 DEF Returning
<1> QED BY <1>1, <1>2

(* After a stage, run or skipped, the scope and its shell agree again.     *)
Follow(s, h, after, past, straight) ==
    /\ Agrees(after, past, straight)
    /\ after.group = s.group /\ past.group = h.group
    /\ past.real = Off <=> h.real = Off

LEMMA Passing ==
    ASSUME NEW s, NEW h, NEW straight, NEW other, NEW stage, NEW entry, NEW turn,
           NEW found, NEW own, NEW executed, NEW real, NEW dir, NEW later,
           Agrees(s, h, other), Continuing(s, stage),
           Matched(h, stage, entry, turn, found, straight),
           turn.runs => Leaves(stage, entry, own, executed, real, dir),
           ~turn.runs => real = found /\ dir = h.dir
    PROVE  Follow(s, h, After(s, stage, entry, own, executed),
                  Past(h, stage, turn, found, real, dir), later)
<1> DEFINE after   == After(s, stage, entry, own, executed)
           past    == Past(h, stage, turn, found, real, dir)
           known   == IF stage.conn \in Continues THEN s.launch
                      ELSE [status |-> entry.status, flow |-> entry.flow]
           launch  == IF stage.conn \in {"&&", "||", "|"} THEN h.launch
                      ELSE [real |-> found, dir |-> h.dir]
           decided == Decided(own, stage.conn, entry.status)
           mask    == IF stage.conn # "|" \/ entry.exec = "always" THEN decided
                      ELSE IF entry.exec = "never" THEN entry.status
                      ELSE decided \cup entry.status
           pairs   == PairsOf(entry.flow, Outcomes \ entry.run)
                        \cup IF DOMAIN entry.flow \cap entry.run = {}
                             THEN {} ELSE executed
<1>1. /\ DOMAIN after = ScopeFields
      /\ after.active = s.active /\ after.group = s.group
      /\ after.next = stage.next
      /\ after.async = (stage.async /\ stage.next # "&")
      /\ after.negated = (stage.negated /\ stage.next = "|")
      /\ stage.next = "&" => /\ after.status = Launched(known.status)
                             /\ after.flow = Resumed(known.flow)
      /\ stage.next # "&" => after.status = mask /\ after.flow = Flow(pairs)
      /\ stage.async /\ stage.next # "&" => after.launch = known
      /\ stage.next = "|" => after.pipe = [flow |-> entry.flow, run |-> entry.run,
                                           exec |-> entry.exec]
  <2>1. DOMAIN s = ScopeFields /\ stage.async \in BOOLEAN
    BY DEF Agrees, Continuing
  <2> QED BY <2>1 DEF After, ScopeFields
<1>2. /\ DOMAIN past = ShellFields /\ past.group = h.group
      /\ stage.next = "&" =>
             /\ past.real = IF launch.real \in {"ok", "fail"} THEN "ok"
                            ELSE launch.real
             /\ past.dir = launch.dir
      /\ stage.next # "&" => past.real = real /\ past.dir = dir
      /\ stage.next = "|" => past.pipe = turn
      /\ stage.async /\ stage.next # "&" => past.launch = launch
  BY DEF Agrees, Past, ShellFields
<1>3. /\ stage.next \in Continues \cup Ends
      /\ stage.async \in BOOLEAN /\ stage.negated \in BOOLEAN
      /\ stage.next = "&" => stage.async
  BY DEF Continuing, Ends
<1>4. stage.async =>
          /\ launch.real \in Outcomes \cup {Off}
          /\ launch.real = Off <=> h.real = Off
          /\ launch.real # Off => /\ Covers(known.status, launch.real)
                                  /\ Names(known.flow, launch.real, launch.dir)
  BY Launching
<1>5. /\ h.real = Off => s.active # "always"
      /\ h.real # Off => s.active # "never"
  BY DEF Agrees, StatusAgrees
<1>6. /\ turn.runs \in BOOLEAN
      /\ found \in Outcomes \cup {Off}
      /\ found = Off <=> h.real = Off
      /\ turn.runs => found # Off
  BY DEF Matched
<1>7. Off \notin Outcomes
  BY DEF Off, Outcomes, Returning, Ending
<1> HIDE DEF after, past, known, launch, decided, mask, pairs
<1>8. CASE stage.next = "&"
  <2>1. /\ past.real \in Outcomes \cup {Off}
        /\ past.real = Off <=> h.real = Off
    <3>1. "ok" \in Outcomes /\ "ok" # Off /\ Off \notin {"ok", "fail"}
      BY DEF Outcomes, Returning, Off
    <3> QED BY <1>2, <1>3, <1>4, <1>8, <3>1
  <2>2. ASSUME past.real # Off
        PROVE  past.real \in after.status /\ Names(after.flow, past.real, past.dir)
    <3>1. launch.real \in Outcomes
      BY <2>1, <2>2, <1>3, <1>4, <1>8
    <3>2. /\ Covers(known.status, launch.real)
          /\ Names(known.flow, launch.real, launch.dir)
      BY <3>1, <1>3, <1>4, <1>7, <1>8
    <3> QED BY <3>1, <3>2, <1>1, <1>2, <1>8, Resuming
  <2>3. StatusAgrees(after, past, later)
    BY <2>1, <2>2, <1>1, <1>5, <1>8 DEF StatusAgrees
  <2>4. after.next # "|" /\ after.async = FALSE /\ after.negated = FALSE
    BY <1>1, <1>8
  <2>5. after.next \in {"first"} \cup Continues \cup Ends
    BY <1>1, <1>3
  <2> QED BY <2>1, <2>3, <2>4, <2>5, <1>1, <1>2 DEF Follow, Agrees, after, past
<1>9. CASE stage.next # "&"
  <2>1. /\ past.real = real /\ past.dir = dir
        /\ after.status = mask /\ after.flow = Flow(pairs)
    BY <1>1, <1>2, <1>9
  <2>2. /\ real \in Outcomes \cup {Off}
        /\ real = Off <=> h.real = Off
    <3>1. CASE turn.runs
      BY <3>1, <1>6, <1>7 DEF Leaves
    <3>2. CASE ~turn.runs
      BY <3>2, <1>6
    <3> QED BY <3>1, <3>2, <1>6
  <2>3. ASSUME turn.runs
        PROVE  real \in mask /\ Names(Flow(pairs), real, dir)
    <3>1. /\ real \in Resolve(own, entry.status \cap RunMask(stage.conn))
          /\ entry.status \cap RunMask(stage.conn) # {}
          /\ entry.exec # "never"
      BY <2>3 DEF Leaves, Matched
    <3>2. real \in decided
      BY <3>1 DEF decided, Decided
    <3>3. real \in mask
      BY <3>1, <3>2 DEF mask
    <3>4. PICK x \in {dir, Unknown} : <<real, x>> \in executed
      BY <2>3 DEF Leaves
    <3>5. DOMAIN entry.flow \cap entry.run # {}
      BY <2>3 DEF Matched, Names
    <3>6. <<real, x>> \in pairs
      BY <3>4, <3>5 DEF pairs
    <3> QED BY <3>3, <3>4, <3>6, FlowNames
  <2>4. ASSUME ~turn.runs, real # Off
        PROVE  real \in mask /\ Names(Flow(pairs), real, dir)
    <3>1. /\ real = found /\ dir = h.dir /\ found # Off
          /\ found \in entry.status /\ entry.exec # "always"
          /\ found \notin entry.run /\ Names(entry.flow, found, h.dir)
          /\ stage.conn # "|" => entry.run = RunMask(stage.conn)
      BY <2>4 DEF Matched
    <3>2. stage.conn # "|" => real \in decided
      BY <3>1 DEF decided, Decided
    <3>3. real \in mask
      BY <3>1, <3>2 DEF mask
    <3>4. real \in Outcomes \ entry.run
      BY <3>1, <1>6
    <3>5. /\ <<real, entry.flow[real]>> \in PairsOf(entry.flow, Outcomes \ entry.run)
          /\ entry.flow[real] \in {dir, Unknown}
      BY <3>1, <3>4, PairKept
    <3>6. <<real, entry.flow[real]>> \in pairs
      BY <3>5 DEF pairs
    <3> QED BY <3>3, <3>5, <3>6, FlowNames
  <2>5. StatusAgrees(after, past, later)
    <3>1. after.next # "first"
      BY <1>1, <1>3 DEF Continues, Ends
    <3>2. past.real # Off =>
             past.real \in after.status /\ Names(after.flow, past.real, past.dir)
      BY <2>1, <2>3, <2>4
    <3> QED BY <3>1, <3>2, <2>1, <2>2, <1>1, <1>5 DEF StatusAgrees
  <2>6. ASSUME after.next = "|"
        PROVE  PipeAgrees(after, past)
    <3>1. /\ stage.next = "|" /\ past.pipe = turn
          /\ after.pipe.flow = entry.flow /\ after.pipe.run = entry.run
          /\ after.pipe.exec = entry.exec
      BY <2>6, <1>1, <1>2
    <3>2. ASSUME turn.runs
          PROVE  /\ real \in Returning /\ entry.exec # "never"
                 /\ turn.real \in entry.run
                 /\ Names(entry.flow, turn.real, turn.dir)
      BY <3>1, <3>2 DEF Leaves, Matched, Child
    <3>3. ASSUME ~turn.runs, real # Off
          PROVE  /\ entry.exec # "always" /\ real \notin entry.run
                 /\ Names(entry.flow, real, dir)
      BY <3>3 DEF Matched
    <3>4. turn.runs \in BOOLEAN /\ entry.run \subseteq Returning
      BY DEF Matched
    <3> QED BY <3>1, <3>2, <3>3, <3>4, <2>1 DEF PipeAgrees
  <2>7. ASSUME after.async
        PROVE  LaunchAgrees(after, past)
    <3>1. stage.async /\ after.launch = known /\ past.launch = launch
      BY <2>7, <1>1, <1>2, <1>9
    <3> QED BY <3>1, <2>1, <2>2, <1>4 DEF LaunchAgrees
  <2>8. /\ after.next \in {"first"} \cup Continues \cup Ends
        /\ after.async \in BOOLEAN /\ after.negated \in BOOLEAN
    BY <1>1, <1>3
  <2> QED BY <2>1, <2>2, <2>5, <2>6, <2>7, <2>8, <1>1, <1>2 DEF Follow, Agrees, after, past
<1> QED BY <1>8, <1>9

-------------------------------------------------------------------------------
(* Simple commands *)

Did(command, turn) ==
    (command.outcomes \ {Bare}) \cup command.errors
        \cup IF Bare \notin command.outcomes THEN {} ELSE {Exit(turn.real)}

(* What a command does to its shell, in the terms of the analysis. *)
LEMMA EffectIs ==
    ASSUME NEW command \in Command, NEW turn, turn.real \in Returning,
           NEW effect \in Effects(command, turn)
    PROVE  /\ effect[1] \in Did(command, turn) /\ effect[1] \in Outcomes
           /\ command.moves = Stay \/ effect[1] \notin Returning =>
                  effect[2] = turn.dir
           /\ command.moves \in Dirs /\ effect[1] = "fail" => effect[2] = turn.dir
           /\ command.moves \in Dirs /\ effect[1] = "ok" => effect[2] = command.moves
<1>1. /\ effect[1] \in (command.outcomes \ {Bare}) \cup command.errors
            \cup IF Bare \notin command.outcomes THEN {}
                 ELSE IF turn.real = "ok" THEN {"exitOk"} ELSE {"exitFail"}
      /\ IF command.moves = Stay \/ effect[1] \notin {"ok", "fail"}
         THEN effect[2] = turn.dir
         ELSE command.moves # Anywhere =>
                 effect[2] = (IF effect[1] = "ok" THEN command.moves ELSE turn.dir)
  BY DEF Effects
<1>2. /\ command.outcomes \subseteq Outcomes \cup {Bare}
      /\ command.errors \subseteq Ending
  BY DEF Command
<1>3. effect[1] \in Did(command, turn)
  BY <1>1 DEF Did, Exit, Returning
<1>4. effect[1] \in Outcomes
  BY <1>1, <1>2 DEF Outcomes, Ending
<1>5. command.moves \in Dirs => command.moves \notin {Stay, Anywhere}
  BY FlowAssumption
<1> QED BY <1>1, <1>3, <1>4, <1>5 DEF Returning

LEMMA ResultIs ==
    ASSUME NEW o \in Outcomes, NEW child \in BOOLEAN, NEW negated \in BOOLEAN
    PROVE  LET seen == IF child THEN Returned(o) ELSE o
               r    == Result(o, child, negated)
           IN /\ r = (IF negated THEN Inverted(seen) ELSE seen)
              /\ r \in Outcomes /\ r # Bare
              /\ child => r \in Returning
              /\ ~child => (r \in Returning <=> o \in Returning)
              /\ o \notin Returning /\ ~child => r = o
BY DEF Result, Reported, Returned, Inverted, Outcomes, Returning, Ending, Bare

(* event_static_status covers what a command that runs leaves behind: with  *)
(* a bare exit it takes the status in reach for the one of the shell, and  *)
(* of a child in a negated pipeline no error of expansion.                  *)
LEMMA CommandLeaves ==
    ASSUME NEW command \in Command, NEW stage, stage.negated \in BOOLEAN,
           NEW entry, NEW turn, NEW found, NEW h, NEW straight,
           Matched(h, stage, entry, turn, found, straight), turn.runs,
           Bare \in command.outcomes => straight,
           command.errors = {} \/ ~IsChild(stage) \/ ~stage.negated,
           NEW effect \in Effects(command, turn)
    PROVE  LET own == StaticStatus(command, stage, entry)
           IN Leaves(stage, entry, own, Executed(command, stage, entry, own),
                     Result(effect[1], Child(stage), stage.negated),
                     IF Child(stage) THEN turn.dir ELSE effect[2])
<1> DEFINE own   == StaticStatus(command, stage, entry)
           child == Child(stage)
           e     == effect[1]
           seen  == IF child THEN Returned(e) ELSE e
           r     == Result(e, child, stage.negated)
           dir   == IF child THEN turn.dir ELSE effect[2]
           executed == Executed(command, stage, entry, own)
           reach == DOMAIN entry.flow \cap entry.run
<1>1. /\ turn.real \in Returning /\ turn.real \in reach
      /\ entry.flow[turn.real] \in {turn.dir, Unknown}
      /\ entry.dir \in {turn.dir, Unknown}
      /\ entry.active # "never"
  BY DEF Matched, Names
<1>2. /\ e \in Did(command, turn) /\ e \in Outcomes
      /\ command.moves = Stay \/ e \notin Returning => effect[2] = turn.dir
      /\ command.moves \in Dirs /\ e = "fail" => effect[2] = turn.dir
      /\ command.moves \in Dirs /\ e = "ok" => effect[2] = command.moves
  BY <1>1, EffectIs
<1>3. child \in BOOLEAN /\ child = IsChild(stage)
  BY DEF Child, IsChild
<1>4. /\ r = (IF stage.negated THEN Inverted(seen) ELSE seen)
      /\ r \in Outcomes /\ r # Bare
      /\ child => r \in Returning
      /\ ~child => (r \in Returning <=> e \in Returning)
      /\ e \notin Returning /\ ~child => r = e
  BY <1>2, <1>3, ResultIs
<1>5. CASE r \in own
  <2>1. r \in Resolve(own, entry.status \cap RunMask(stage.conn))
    BY <1>4, <1>5 DEF Resolve
  <2> DEFINE moved == /\ ~IsChild(stage) /\ entry.active # "never"
                      /\ r \in Returning
                      /\ command.moves # Stay
                      /\ command.moves \in Dirs =>
                             r = (IF stage.negated THEN "fail" ELSE "ok")
             x == IF ~moved THEN entry.dir
                  ELSE IF command.moves \in Dirs THEN command.moves ELSE Unknown
  <2>2. <<r, x>> \in executed
    BY <1>4, <1>5 DEF Executed
  <2>3. x \in {dir, Unknown}
    <3>1. CASE child
      BY <3>1, <1>1, <1>3
    <3>2. CASE ~child /\ command.moves \notin Dirs
      BY <3>2, <1>1, <1>2, <1>3, <1>4
    <3>3. CASE ~child /\ command.moves \in Dirs /\ e \notin Returning
      BY <3>3, <1>1, <1>2, <1>3, <1>4
    <3>4. CASE ~child /\ command.moves \in Dirs /\ e \in Returning
      <4>1. r = (IF e = "ok" THEN IF stage.negated THEN "fail" ELSE "ok"
                             ELSE IF stage.negated THEN "ok" ELSE "fail")
        BY <3>4, <1>4 DEF Inverted, Returning
      <4>2. command.moves # Stay
        BY <3>4, FlowAssumption
      <4> QED BY <3>4, <4>1, <4>2, <1>1, <1>2, <1>3 DEF Returning
    <3> QED BY <3>1, <3>2, <3>3, <3>4
  <2> QED BY <2>1, <2>2, <2>3, <1>4 DEF Leaves
<1>6. CASE e \in command.outcomes \ {Bare}
  <2>1. e \in Resolve(command.outcomes, reach)
    BY <1>6 DEF Resolve
  <2>2. r \in own
    BY <2>1, <1>3, <1>4, <1>6 DEF StaticStatus, ChildReturn, Negate
  <2> QED BY <2>2, <1>5
<1>7. CASE e \in command.errors
  <2>1. e \in Ending
    BY <1>7 DEF Command
  <2>2. e \notin Returning
    BY <2>1 DEF Ending, Returning
  <2>3. r \in own
    BY <2>2, <1>3, <1>4, <1>7 DEF StaticStatus, ChildReturn
  <2> QED BY <2>3, <1>5
<1>8. CASE Bare \in command.outcomes /\ e = Exit(turn.real)
  <2>1. CASE child
    <3>1. e \in Resolve(command.outcomes, reach)
      BY <1>1, <1>8 DEF Resolve
    <3>2. r \in own
      BY <2>1, <3>1, <1>3, <1>4 DEF StaticStatus, ChildReturn, Negate
    <3> QED BY <3>2, <1>5
  <2>2. CASE ~child
    <3>1. e \notin Returning /\ r = e
      BY <2>2, <1>4, <1>8 DEF Exit, Returning
    <3>2. Bare \in own
      <4>1. Inverted(Bare) = Bare
        BY DEF Inverted, Bare
      <4> QED BY <2>2, <4>1, <1>3, <1>8 DEF StaticStatus, Negate
    <3>3. turn.real \in entry.status \cap RunMask(stage.conn)
      <4>1. stage.conn # "|"
        BY <2>2 DEF Child
      <4> QED BY <4>1, <1>8 DEF Matched
    <3>4. r \in Resolve(own, entry.status \cap RunMask(stage.conn))
      BY <3>1, <3>2, <3>3, <1>1, <1>8 DEF Resolve
    <3>5. <<r, entry.flow[turn.real]>> \in executed
      BY <3>1, <3>2, <1>1, <1>8 DEF Executed
    <3>6. dir = turn.dir
      BY <2>2, <3>1, <1>2
    <3> QED BY <2>2, <3>4, <3>5, <3>6, <1>1, <1>4 DEF Leaves
  <2> QED BY <2>1, <2>2
<1> QED BY <1>2, <1>6, <1>7, <1>8 DEF Did

-------------------------------------------------------------------------------
(* The steps *)

LEMMA RunInitially == RunInit => RunIInv
<1> SUFFICES ASSUME RunInit PROVE RunIInv
  OBVIOUS
<1>1. PICK real \in {"ok", "fail"} : shells = Alone(real)
  BY DEF RunInit
<1>2. /\ depth = 0 /\ scopes = [d \in 0..MaxDepth |-> IF d = 0 THEN Line ELSE Unused]
      /\ 0 \in 0..MaxDepth
  BY FlowAssumption DEF RunInit, FlowInit
<1>3. scopes[0] = Line /\ shells[0] = Shell(real, Start, NoGroup)
  BY <1>1, <1>2 DEF Alone
<1> DEFINE s == scopes[0]
           h == shells[0]
<1>4. /\ DOMAIN s = ScopeFields /\ s.next = "first"
      /\ s.async = FALSE /\ s.negated = FALSE
      /\ s.active = "always" /\ s.status = Returning
      /\ s.flow = [o \in Returning |-> Start]
  BY <1>3 DEF Line, Scope, ScopeFields
<1>5. DOMAIN h = ShellFields /\ h.real = real /\ h.dir = Start
  BY <1>3 DEF Shell, ShellFields
<1>6. /\ real \in Returning /\ Returning # {} /\ real \in Outcomes /\ real # Off
  BY DEF Returning, Outcomes, Off
<1> HIDE DEF s, h
<1>7. Names(s.flow, h.real, h.dir)
  BY <1>4, <1>5, <1>6 DEF Names
<1>8. StatusAgrees(s, h, Straight(0))
  BY <1>4, <1>5, <1>6, <1>7 DEF StatusAgrees
<1>9. Agrees(s, h, Straight(0))
  BY <1>4, <1>5, <1>6, <1>8 DEF Agrees
<1>10. DOMAIN scopes = 0..MaxDepth /\ DOMAIN shells = 0..MaxDepth
  BY <1>1, <1>2 DEF Alone
<1> QED BY <1>2, <1>9, <1>10 DEF RunIInv, s, h

(* A step that continues scope n, once everything inside it is closed. *)
LEMMA Continued ==
    ASSUME RunIInv, NEW n \in 0..depth, depth' = n,
           DOMAIN scopes' = 0..MaxDepth, DOMAIN shells' = 0..MaxDepth,
           \A d \in 0..MaxDepth : d < n =>
               scopes'[d] = scopes[d] /\ shells'[d] = shells[d],
           Agrees(scopes'[n], shells'[n], Straight(n)),
           scopes'[n].group = scopes[n].group,
           shells'[n].group = shells[n].group,
           shells'[n].real = Off <=> shells[n].real = Off
    PROVE  RunIInv'
<1>1. depth \in 0..MaxDepth /\ MaxDepth \in Nat
  BY FlowAssumption DEF RunIInv
<1>2. \A d \in 0..n : /\ scopes'[d].group = scopes[d].group
                      /\ shells'[d].group = shells[d].group
                      /\ shells'[d].real = Off <=> shells[d].real = Off
  <2> SUFFICES ASSUME NEW d \in 0..n
               PROVE  /\ scopes'[d].group = scopes[d].group
                      /\ shells'[d].group = shells[d].group
                      /\ shells'[d].real = Off <=> shells[d].real = Off
    OBVIOUS
  <2>1. CASE d = n
    BY <2>1
  <2>2. CASE d # n
    <3>1. d \in 0..MaxDepth /\ d < n
      BY <2>2, <1>1
    <3> QED BY <3>1
  <2> QED BY <2>1, <2>2
<1>3. ASSUME NEW d \in 0..n
      PROVE  Straight(d)' = Straight(d)
  <2>1. \A i \in 1..d : scopes'[i].group = scopes[i].group
    BY <1>1, <1>2
  <2> QED BY <2>1 DEF Straight
<1>4. ASSUME NEW d \in 0..n
      PROVE  Agrees(scopes[d], shells[d], Straight(d))'
  <2>1. CASE d = n
    BY <2>1, <1>3
  <2>2. CASE d # n
    <3>1. d \in 0..MaxDepth /\ d < n /\ d \in 0..depth
      BY <2>2, <1>1
    <3>2. Agrees(scopes[d], shells[d], Straight(d))
      BY <3>1 DEF RunIInv
    <3>3. scopes'[d] = scopes[d] /\ shells'[d] = shells[d]
      BY <3>1
    <3> QED BY <3>2, <3>3, <1>3
  <2> QED BY <2>1, <2>2
<1>5. ASSUME NEW d \in 1..n
      PROVE  GroupAgrees(d)'
  <2>1. /\ d \in 1..depth /\ d \in 0..n /\ d - 1 \in 0..n
        /\ d - 1 \in 0..MaxDepth /\ d - 1 < n
    BY <1>1
  <2>2. GroupAgrees(d)
    BY <2>1 DEF RunIInv
  <2>3. scopes'[d - 1] = scopes[d - 1] /\ shells'[d - 1] = shells[d - 1]
    BY <2>1
  <2>4. Straight(d - 1)' = Straight(d - 1)
    BY <2>1, <1>3
  <2>5. /\ scopes'[d].group = scopes[d].group
        /\ shells'[d].group = shells[d].group
        /\ shells'[d].real = Off <=> shells[d].real = Off
    BY <2>1, <1>2
  <2> QED BY <2>2, <2>3, <2>4, <2>5 DEF GroupAgrees
<1>6. n \in 0..MaxDepth
  BY <1>1
<1> QED BY <1>4, <1>5, <1>6 DEF RunIInv

LEMMA SimpleStep ==
    ASSUME RunIInv, Deviations = {}, NEW stage \in Stages, NEW command \in Commands,
           Simple(stage, command)
    PROVE  RunIInv'
<1> DEFINE entry    == Entry(stage)
           turn     == Turn(stage)
           found    == Found(stage)
           own      == StaticStatus(command, stage, entry)
           executed == Executed(command, stage, entry, own)
           after    == After(Here, stage, entry, own, executed)
<1>1. depth \in 0..MaxDepth /\ depth \in 0..depth /\ MaxDepth \in Nat
  BY FlowAssumption DEF RunIInv
<1>2. Agrees(Here, Me, Straight(depth))
  BY <1>1 DEF RunIInv, Here, Me
<1>3. /\ Continuing(Here, stage)
      /\ Matched(Me, stage, entry, turn, found, Straight(depth))
  BY <1>2, Entering
<1>4. depth' = depth /\ scopes' = [scopes EXCEPT ![depth] = after]
  BY DEF Simple, ReadCommand
<1>5. PICK real, dir :
          /\ shells' = [shells EXCEPT ![depth] =
                           Past(Me, stage, turn, found, real, dir)]
          /\ turn.runs => Leaves(stage, entry, own, executed, real, dir)
          /\ ~turn.runs => real = found /\ dir = Me.dir
  <2>1. CASE turn.runs
    <3>1. PICK effect \in Effects(command, turn) :
             shells' = [shells EXCEPT ![depth] =
                 Past(Me, stage, turn, found,
                      Result(effect[1], Child(stage), stage.negated),
                      IF Child(stage) THEN turn.dir ELSE effect[2])]
      BY <2>1 DEF Simple, RunCommand, Me
    <3>2. command \in Command /\ stage.negated \in BOOLEAN
      BY <1>3, FlowAssumption DEF Continuing
    <3>3. /\ Bare \in command.outcomes => Straight(depth)
          /\ command.errors = {} \/ ~IsChild(stage) \/ ~stage.negated
      BY DEF Simple, InReach, Straight
    <3> DEFINE real == Result(effect[1], Child(stage), stage.negated)
               dir  == IF Child(stage) THEN turn.dir ELSE effect[2]
    <3>4. Leaves(stage, entry, own, executed, real, dir)
      BY <2>1, <3>2, <3>3, <1>3, CommandLeaves
    <3> HIDE DEF entry, turn, found, own, executed
    <3> QED BY <2>1, <3>1, <3>4
  <2>2. CASE ~turn.runs
    <3>1. shells' = [shells EXCEPT ![depth] =
                       Past(Me, stage, turn, found, found, Me.dir)]
      BY <2>2 DEF Simple, RunCommand, Me
    <3> HIDE DEF entry, turn, found, own, executed
    <3> QED BY <2>2, <3>1
  <2> QED BY <2>1, <2>2
<1> DEFINE past == Past(Me, stage, turn, found, real, dir)
<1> HIDE DEF entry, turn, found, own, executed
<1>6. /\ Agrees(after, past, Straight(depth))
      /\ after.group = Here.group /\ past.group = Me.group
      /\ past.real = Off <=> Me.real = Off
  <2>1. Follow(Here, Me, after, past, Straight(depth))
    BY <1>2, <1>3, <1>5, Passing
  <2> HIDE DEF after, past
  <2> QED BY <2>1 DEF Follow
<1> HIDE DEF after, past
<1>7. /\ DOMAIN scopes' = 0..MaxDepth /\ DOMAIN shells' = 0..MaxDepth
      /\ scopes'[depth] = after /\ shells'[depth] = past
      /\ \A d \in 0..MaxDepth : d < depth =>
             scopes'[d] = scopes[d] /\ shells'[d] = shells[d]
  BY <1>1, <1>4, <1>5 DEF RunIInv, past
<1> QED BY <1>1, <1>4, <1>6, <1>7, Continued DEF Here, Me

(* The first status in a group is the one with which its stage is entered. *)
LEMMA OpenedAgrees ==
    ASSUME NEW stage, NEW entry, NEW turn, NEW found, NEW h, NEW straight,
           Matched(h, stage, entry, turn, found, straight),
           NEW later, later => straight /\ stage.conn # "|", NEW group, NEW by
    PROVE  Agrees(Scope(entry.status \cap RunMask(stage.conn),
                        [o \in DOMAIN entry.flow \cap entry.run |-> entry.dir],
                        entry.active, group),
                  Shell(IF turn.runs THEN turn.real ELSE Off,
                        IF turn.runs THEN turn.dir ELSE Start, by), later)
<1> DEFINE first == entry.status \cap RunMask(stage.conn)
           flow  == [o \in DOMAIN entry.flow \cap entry.run |-> entry.dir]
           real  == IF turn.runs THEN turn.real ELSE Off
           dir   == IF turn.runs THEN turn.dir ELSE Start
           s     == Scope(first, flow, entry.active, group)
           shell == Shell(real, dir, by)
<1>1. /\ DOMAIN s = ScopeFields /\ s.next = "first"
      /\ s.async = FALSE /\ s.negated = FALSE
      /\ s.active = entry.active /\ s.status = first /\ s.flow = flow
  BY DEF Scope, ScopeFields
<1>2. DOMAIN shell = ShellFields /\ shell.real = real /\ shell.dir = dir
  BY DEF Shell, ShellFields
<1>3. turn.runs \in BOOLEAN /\ (turn.runs => turn.real \in Returning)
  BY DEF Matched
<1>4. /\ real \in Outcomes \cup {Off}
      /\ turn.runs <=> real # Off
  BY <1>3 DEF Outcomes, Returning, Off
<1>5. first \subseteq Returning
  BY RunMasks
<1>6. ASSUME turn.runs
      PROVE  /\ entry.active # "never" /\ real \in Returning
             /\ Names(flow, real, dir) /\ first # {}
             /\ later => real \in first
  <2>1. /\ entry.active # "never" /\ first # {}
        /\ turn.real \in entry.run
        /\ Names(entry.flow, turn.real, turn.dir)
        /\ entry.dir \in {turn.dir, Unknown}
        /\ real = turn.real /\ dir = turn.dir /\ real \in Returning
    BY <1>3, <1>6 DEF Matched
  <2>2. Names(flow, real, dir)
    BY <2>1 DEF Names
  <2>3. ASSUME later
        PROVE  real \in first
    <3>1. /\ stage.conn # "|" /\ turn.real = found /\ found \in entry.status
          /\ entry.run = RunMask(stage.conn)
      BY <2>3, <1>6 DEF Matched
    <3> QED BY <3>1, <2>1
  <2> QED BY <2>1, <2>2, <2>3
<1>7. ~turn.runs => entry.active # "always"
  BY DEF Matched
<1> HIDE DEF first, flow, real, dir, s, shell
<1>8. StatusAgrees(s, shell, later)
  BY <1>1, <1>2, <1>4, <1>5, <1>6, <1>7 DEF StatusAgrees
<1>9. Agrees(s, shell, later)
  BY <1>1, <1>2, <1>4, <1>8 DEF Agrees
<1> QED BY <1>9 DEF s, shell, first, flow, real, dir

LEMMA OpenStep ==
    ASSUME RunIInv, NEW stage \in Stages, NEW subshell \in BOOLEAN,
           Open(stage, subshell)
    PROVE  RunIInv'
<1> DEFINE entry == Entry(stage)
           turn  == Turn(stage)
           found == Found(stage)
           group == [stage |-> stage, entry |-> entry,
                     child |-> subshell \/ IsChild(stage)]
           by    == [stage |-> stage, turn |-> turn, found |-> found,
                     child |-> subshell \/ Child(stage)]
           s     == Scope(entry.status \cap RunMask(stage.conn),
                          [o \in DOMAIN entry.flow \cap entry.run |-> entry.dir],
                          entry.active, group)
           h     == Shell(IF turn.runs THEN turn.real ELSE Off,
                          IF turn.runs THEN turn.dir ELSE Start, by)
<1>1. /\ depth \in 0..MaxDepth /\ depth \in 0..depth /\ MaxDepth \in Nat
      /\ depth < MaxDepth
  BY FlowAssumption DEF RunIInv, Open, OpenGroup
<1>0. PICK m \in Nat, n \in Nat : m = depth /\ n = m + 1
  BY <1>1
<1>2. Agrees(Here, Me, Straight(depth))
  BY <1>1 DEF RunIInv, Here, Me
<1>3. /\ Continuing(Here, stage)
      /\ Matched(Me, stage, entry, turn, found, Straight(depth))
  BY <1>2, Entering
<1>4. depth' = n /\ scopes' = [scopes EXCEPT ![n] = s]
  BY <1>0 DEF Open, OpenGroup
<1>5. shells' = [shells EXCEPT ![n] = h]
  BY <1>0 DEF Open, RunGroup
<1>6. /\ DOMAIN scopes' = 0..MaxDepth /\ DOMAIN shells' = 0..MaxDepth
      /\ n \in 0..MaxDepth /\ scopes'[n] = s /\ shells'[n] = h
      /\ \A d \in 0..depth : scopes'[d] = scopes[d] /\ shells'[d] = shells[d]
  <2> HIDE DEF s, h
  <2> QED BY <1>0, <1>1, <1>4, <1>5 DEF RunIInv
<1>7. s.group = group /\ h.group = by
  BY DEF Scope, Shell
<1>8. ASSUME NEW d \in 0..depth
      PROVE  Straight(d)' = Straight(d)
  <2>1. \A i \in 1..d : scopes'[i].group = scopes[i].group
    BY <1>1, <1>6
  <2> QED BY <2>1 DEF Straight
<1>9. Straight(n)' => Straight(m) /\ stage.conn # "|"
  <2> SUFFICES ASSUME Straight(n)' PROVE Straight(m) /\ stage.conn # "|"
    OBVIOUS
  <2>1. \A i \in 1..n : scopes'[i].group.stage.conn # "|"
    BY DEF Straight
  <2>2. Straight(m)
    <3>1. \A i \in 1..m : i \in 1..n /\ scopes'[i] = scopes[i]
      BY <1>0, <1>1, <1>6
    <3> QED BY <2>1, <3>1 DEF Straight
  <2>3. scopes'[n].group.stage = stage /\ n \in 1..n
    <3> HIDE DEF s, h
    <3>1. scopes'[n].group.stage = group.stage
      BY <1>6, <1>7
    <3> QED BY <3>1, <1>0, <1>1
  <2> QED BY <2>1, <2>2, <2>3
<1>10. Agrees(scopes[n], shells[n], Straight(n))'
  <2>1. PICK later : later = Straight(n)'
    OBVIOUS
  <2>2. Agrees(s, h, later)
    <3> HIDE DEF entry, turn, found, group, by
    <3> QED BY <2>1, <1>0, <1>3, <1>9, OpenedAgrees
  <2> HIDE DEF s, h
  <2> QED BY <2>1, <2>2, <1>4, <1>6
<1>11. ASSUME NEW d \in 0..depth
       PROVE  Agrees(scopes[d], shells[d], Straight(d))'
  BY <1>6, <1>8 DEF RunIInv
<1>12. ASSUME NEW d \in 1..depth
       PROVE  GroupAgrees(d)'
  <2>1. GroupAgrees(d) /\ d \in 0..depth /\ d - 1 \in 0..depth
    BY <1>1 DEF RunIInv
  <2>2. /\ scopes'[d] = scopes[d] /\ shells'[d] = shells[d]
        /\ scopes'[d - 1] = scopes[d - 1] /\ shells'[d - 1] = shells[d - 1]
    BY <2>1, <1>6
  <2>3. Straight(d - 1)' = Straight(d - 1)
    BY <2>1, <1>8
  <2> QED BY <2>1, <2>2, <2>3 DEF GroupAgrees
<1>13. GroupAgrees(n)'
  <2>1. scopes'[n].group = group /\ shells'[n].group = by
    <3> HIDE DEF s, h
    <3> QED BY <1>6, <1>7
  <2>2. n - 1 = m /\ m \in 0..depth
    BY <1>0, <1>1
  <2>3. scopes'[n - 1] = Here /\ shells'[n - 1] = Me
    <3>1. scopes'[m] = scopes[m] /\ shells'[m] = shells[m]
      BY <2>2, <1>6
    <3> QED BY <3>1, <2>2, <1>0 DEF Here, Me
  <2>4. Straight(n - 1)' = Straight(m)
    <3>1. Straight(m)' = Straight(m)
      BY <2>2, <1>8
    <3> QED BY <2>2, <3>1
  <2>5. turn.runs <=> shells'[n].real # Off
    <3>1. shells'[n].real = IF turn.runs THEN turn.real ELSE Off
      BY <1>6 DEF Shell
    <3>2. /\ turn.runs \in BOOLEAN
          /\ turn.runs => turn.real \in Returning
      BY <1>3 DEF Matched
    <3> HIDE DEF turn
    <3> QED BY <3>1, <3>2 DEF Returning, Off
  <2>6. /\ (subshell \/ IsChild(stage)) \in BOOLEAN
        /\ (subshell \/ Child(stage)) = (subshell \/ IsChild(stage))
        /\ Child(stage) => subshell \/ IsChild(stage)
    BY DEF IsChild, Child
  <2> HIDE DEF entry, turn, found, s, h
  <2>7. /\ group.stage = stage /\ group.entry = entry
        /\ by.stage = stage /\ by.turn = turn /\ by.found = found
    OBVIOUS
  <2>8. /\ by.child = group.child /\ group.child \in BOOLEAN
        /\ Child(stage) => group.child
    BY <2>6
  <2>9. Matched(Me, stage, entry, turn, found, Straight(n - 1)')
    BY <2>4, <1>0, <1>3
  <2> HIDE DEF group, by
  <2> QED BY <2>1, <2>3, <2>5, <2>7, <2>8, <2>9, <1>3 DEF GroupAgrees
<1>14. \A d \in 0..n : d = n \/ d \in 0..depth
  BY <1>0, <1>1
<1>15. \A d \in 1..n : d = n \/ d \in 1..depth
  BY <1>0, <1>1
<1> HIDE DEF s, h
<1> QED BY <1>4, <1>6, <1>10, <1>11, <1>12, <1>13, <1>14, <1>15 DEF RunIInv

(* The outcomes of a group with all that is known of its scope, ...        *)
Completed(group, s) == {Completion(group, o) : o \in s.status}

CompletedIn(group, s) ==
    {<<Completion(group, o), IF group.child THEN group.entry.dir ELSE s.flow[o]>> :
        o \in DOMAIN s.flow}

(* ... which cover what its shell leaves behind.                           *)
LEMMA GroupLeaves ==
    ASSUME NEW s, NEW g, NEW inside, Agrees(s, g, inside), s.next # "first",
           g.real # Off,
           NEW group, group.child \in BOOLEAN, group.stage.negated \in BOOLEAN,
           Child(group.stage) => group.child,
           NEW h, NEW turn, NEW found, NEW straight,
           Matched(h, group.stage, group.entry, turn, found, straight), turn.runs
    PROVE  Leaves(group.stage, group.entry, Completed(group, s),
                  CompletedIn(group, s),
                  Result(g.real, group.child, group.stage.negated),
                  IF group.child THEN turn.dir ELSE g.dir)
<1> DEFINE r    == Result(g.real, group.child, group.stage.negated)
           dir  == IF group.child THEN turn.dir ELSE g.dir
           own  == Completed(group, s)
           executed == CompletedIn(group, s)
           x    == IF group.child THEN group.entry.dir ELSE s.flow[g.real]
<1>1. /\ g.real \in Outcomes /\ g.real \in s.status
      /\ Names(s.flow, g.real, g.dir)
  BY DEF Agrees, StatusAgrees
<1>2. /\ r = Completion(group, g.real)
      /\ r \in Outcomes /\ r # Bare
      /\ group.child => r \in Returning
  BY <1>1, ResultIs DEF Completion
<1>3. r \in Resolve(own, group.entry.status \cap RunMask(group.stage.conn))
  BY <1>1, <1>2 DEF Resolve, Completed
<1>4. <<r, x>> \in executed
  BY <1>1, <1>2 DEF Names, CompletedIn
<1>5. x \in {dir, Unknown}
  BY <1>1 DEF Names, Matched
<1> QED BY <1>2, <1>3, <1>4, <1>5 DEF Leaves

LEMMA CloseStep ==
    ASSUME RunIInv, Close
    PROVE  RunIInv'
<1>1. /\ depth \in 0..MaxDepth /\ MaxDepth \in Nat
      /\ depth > 0 /\ Here.next \in Ends
  BY FlowAssumption DEF RunIInv, Close, CloseGroup
<1>2. PICK m \in Nat, n \in Nat : m = depth /\ n = m - 1
  BY <1>1
<1>3. m \in 0..MaxDepth /\ n \in 0..MaxDepth /\ n \in 0..depth /\ n # m
  BY <1>1, <1>2
<1> DEFINE group    == Here.group
           g        == Me.group
           s        == scopes[n]
           h        == shells[n]
           own      == Completed(group, Here)
           executed == CompletedIn(group, Here)
           after    == After(s, group.stage, group.entry, own, executed)
           real     == IF g.turn.runs
                       THEN Result(Me.real, g.child, g.stage.negated) ELSE g.found
           dir      == IF ~g.turn.runs THEN h.dir
                       ELSE IF g.child THEN g.turn.dir ELSE Me.dir
           past     == Past(h, g.stage, g.turn, g.found, real, dir)
<1>4. Agrees(Here, Me, Straight(m)) /\ Agrees(s, h, Straight(n))
  BY <1>2, <1>3 DEF RunIInv, Here, Me
<1>5. /\ g.stage = group.stage /\ g.child = group.child
      /\ group.child \in BOOLEAN
      /\ Child(group.stage) => group.child
      /\ Continuing(s, group.stage)
      /\ Matched(h, group.stage, group.entry, g.turn, g.found, Straight(n))
      /\ g.turn.runs <=> Me.real # Off
  <2>1. GroupAgrees(m) /\ m - 1 = n
    BY <1>1, <1>2 DEF RunIInv
  <2> QED BY <2>1, <1>2 DEF GroupAgrees, Here, Me
<1>6. scopes' = [scopes EXCEPT ![m] = Unused, ![n] = after]
  BY <1>2, <1>3, <1>1 DEF Close, CloseGroup, RunIInv, Here, Completed, CompletedIn
<1>7. shells' = [shells EXCEPT ![m] = Unused, ![n] = past]
  BY <1>2, <1>3, <1>1 DEF Close, EndGroup, RunIInv, Me
<1>8. depth' = n
  BY <1>2 DEF Close, CloseGroup
<1>9. g.turn.runs => Leaves(group.stage, group.entry, own, executed, real, dir)
  <2> SUFFICES ASSUME g.turn.runs
               PROVE  Leaves(group.stage, group.entry, own, executed, real, dir)
    OBVIOUS
  <2>1. Here.next # "first" /\ Me.real # Off
    BY <1>1, <1>5 DEF Ends
  <2>2. group.stage.negated \in BOOLEAN
    BY <1>5 DEF Continuing
  <2>3. /\ real = Result(Me.real, group.child, group.stage.negated)
        /\ dir = IF group.child THEN g.turn.dir ELSE Me.dir
    BY <1>5
  <2> HIDE DEF group, g, s, h
  <2>4. Leaves(group.stage, group.entry, own, executed,
               Result(Me.real, group.child, group.stage.negated),
               IF group.child THEN g.turn.dir ELSE Me.dir)
    BY <2>1, <2>2, <1>4, <1>5, GroupLeaves
  <2> HIDE DEF real, dir
  <2> QED BY <2>3, <2>4
<1>10. ~g.turn.runs => real = g.found /\ dir = h.dir
  OBVIOUS
<1>11. Follow(s, h, after, past, Straight(n))
  <2> HIDE DEF group, g, s, h, own, executed, real, dir
  <2> QED BY <1>4, <1>5, <1>9, <1>10, Passing
<1>12. /\ DOMAIN scopes' = 0..MaxDepth /\ DOMAIN shells' = 0..MaxDepth
       /\ scopes'[n] = after /\ shells'[n] = past
       /\ \A d \in 0..MaxDepth : d < n =>
              scopes'[d] = scopes[d] /\ shells'[d] = shells[d]
  <2> HIDE DEF after, past
  <2> QED BY <1>1, <1>2, <1>3, <1>6, <1>7 DEF RunIInv
<1> HIDE DEF after, past
<1> QED BY <1>3, <1>8, <1>11, <1>12, Continued DEF Follow

LEMMA RunInductive ==
    ASSUME Deviations = {}, RunIInv, [RunNext]_runVars
    PROVE  RunIInv'
<1>1. ASSUME NEW stage \in Stages, NEW command \in Commands, Simple(stage, command)
      PROVE  RunIInv'
  BY <1>1, SimpleStep
<1>2. ASSUME NEW stage \in Stages, NEW subshell \in BOOLEAN, Open(stage, subshell)
      PROVE  RunIInv'
  BY <1>2, OpenStep
<1>3. CASE Close
  BY <1>3, CloseStep
<1>4. CASE UNCHANGED runVars
  <2>1. depth' = depth /\ scopes' = scopes /\ shells' = shells
    BY <1>4 DEF runVars, flowVars
  <2>2. \A d \in 0..MaxDepth : Straight(d)' <=> Straight(d)
    BY <2>1 DEF Straight
  <2>3. \A d \in 1..depth' : GroupAgrees(d)'
    BY <2>1 DEF RunIInv, GroupAgrees, Straight
  <2>4. \A d \in 0..MaxDepth :
            Agrees(scopes[d], shells[d], Straight(d))'
                <=> Agrees(scopes[d], shells[d], Straight(d))
    <3> SUFFICES ASSUME NEW d \in 0..MaxDepth
                 PROVE  Agrees(scopes[d], shells[d], Straight(d))'
                            <=> Agrees(scopes[d], shells[d], Straight(d))
      OBVIOUS
    <3>1. (scopes[d])' = scopes[d] /\ (shells[d])' = shells[d]
      BY <2>1
    <3> QED BY <2>2, <3>1, Zenon
               DEF Agrees, StatusAgrees, PipeAgrees, LaunchAgrees
  <2>5. \A d \in 0..depth' : Agrees(scopes[d], shells[d], Straight(d))'
    <3> SUFFICES ASSUME NEW d \in 0..depth'
                 PROVE  Agrees(scopes[d], shells[d], Straight(d))'
      OBVIOUS
    <3>1. depth \in 0..MaxDepth /\ MaxDepth \in Nat
      BY FlowAssumption DEF RunIInv
    <3>2. d \in 0..depth /\ d \in 0..MaxDepth
      BY <2>1, <3>1
    <3> QED BY <2>4, <3>2, Zenon DEF RunIInv
  <2>6. /\ depth' \in 0..MaxDepth
        /\ DOMAIN scopes' = 0..MaxDepth /\ DOMAIN shells' = 0..MaxDepth
    BY <2>1 DEF RunIInv
  <2> QED BY <2>3, <2>5, <2>6, Zenon DEF RunIInv
<1> QED BY <1>1, <1>2, <1>3, <1>4 DEF RunNext

(* What is said of a stage that may follow is what the shell would do.     *)
LEMMA SaidOfStages ==
    ASSUME RunIInv
    PROVE  RunsAsSaid /\ CwdAsSaid
<1>1. depth \in 0..depth
  BY FlowAssumption DEF RunIInv
<1>2. Agrees(Here, Me, Straight(depth))
  BY <1>1 DEF RunIInv, Here, Me
<1>3. Me.real # Off /\ Here.next # "first" => Me.real \in Here.status
  BY <1>2 DEF Agrees, StatusAgrees
<1>4. ASSUME NEW stage \in Entered
      PROVE  /\ Turn(stage).runs \in BOOLEAN
             /\ Entry(stage).active = "always" => Runs(stage)
             /\ Runs(stage) => Entry(stage).active # "never"
             /\ Runs(stage) => Entry(stage).dir \in {Turn(stage).dir, Unknown}
  <2>1. stage.conn = Here.next /\ stage.unit \in Units
    BY DEF Entered
  <2>2. /\ stage.unit \in BOOLEAN
        /\ stage.unit => Here.next \in Ends
    BY <2>1 DEF Units
  <2>3. Matched(Me, stage, Entry(stage), Turn(stage), Found(stage), Straight(depth))
    <3>1. CASE stage.conn = "|"
      BY <3>1, <2>1, <2>2, <1>2, EnteringLater
    <3>2. CASE stage.conn # "|"
      BY <3>2, <2>1, <2>2, <1>2, EnteringFirst
    <3> QED BY <3>1, <3>2
  <2> QED BY <2>3 DEF Matched, Runs
<1>5. RunsAsSaid
  BY <1>3, <1>4 DEF RunsAsSaid
<1>6. CwdAsSaid
  BY <1>4 DEF CwdAsSaid
<1> QED BY <1>5, <1>6

-------------------------------------------------------------------------------
(* Of the lines that the graph reads as the shell does (see InReach).      *)

(* On every line the two streams of the graph (dep_control_stream_advance, *)
(* dep_cwd_finish) agree with the shells of all its open groups.           *)
THEOREM RunInvariance ==
    ASSUME Deviations = {} PROVE RunSpec => []RunIInv
<1>1. RunInit => RunIInv
  BY RunInitially
<1>2. RunIInv /\ [RunNext]_runVars => RunIInv'
  BY RunInductive
<1> QED BY <1>1, <1>2, PTL DEF RunSpec

(* A stage that dep_control_decision calls always-taken runs, one that it  *)
(* calls impossible does not, and the status of the shell is among those   *)
(* that the control stream holds possible.                                 *)
THEOREM StagesRunAsSaid ==
    ASSUME Deviations = {} PROVE RunSpec => []RunsAsSaid
<1>1. RunIInv => RunsAsSaid
  BY SaidOfStages
<1> QED BY <1>1, RunInvariance, PTL

(* Where the graph reports a directory for a stage that runs (cwd_known),  *)
(* the shell is in it.                                                     *)
THEOREM DirectoriesAsSaid ==
    ASSUME Deviations = {} PROVE RunSpec => []CwdAsSaid
<1>1. RunIInv => CwdAsSaid
  BY SaidOfStages
<1> QED BY <1>1, RunInvariance, PTL
===============================================================================
