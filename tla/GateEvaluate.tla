----------------------------- MODULE GateEvaluate -----------------------------
(***************************************************************************)
(* sg_gate_evaluate (shellgate/src/shellgate.c): one command line, split   *)
(* into simple commands, each asked of the deny and the allow policy, and  *)
(* the verdict, error and learning that come out of it.  The caller        *)
(* retries with another buffer when the first one was too small.           *)
(*                                                                         *)
(* A source is what parsing and graph construction find in the text when   *)
(* nothing fails; failures of capacity and memory are choices of each      *)
(* step.  The result strings share one buffer with room for some of them.  *)
(***************************************************************************)
EXTENDS Integers, Sequences

CONSTANTS
    Sources,    \* the command lines
    Gates,      \* gate configurations
    MaxResults, \* SG_MAX_SUBCOMMAND_RESULTS
    Capacities, \* strings that fit in the buffers callers pass
    MaxCalls    \* calls a caller makes for one command line

(* What the policies say of one command; "allowWord" is an allowed command *)
(* fed by a substitution of shell words.                                    *)
Answers  == {"deny", "allow", "allowWord", "none"}
Allowing == {"allow", "allowWord"}
Modes    == {"firstFail", "firstPass", "firstAllow", "firstDeny", "all"}

(* io: a redirect-only command; arith: unresolved arithmetic; word: a       *)
(* substitution of shell words anywhere; stages: of the anomaly sequence.   *)
Source == [text : {"blank", "malformed", "unsupported", "accepted"},
           cmds : Seq(Answers), io : BOOLEAN, arith : BOOLEAN, word : BOOLEAN,
           stages : Nat]
Gate == [stop : Modes, anomaly : BOOLEAN, onlyOnAllow : BOOLEAN,
         skipDetected : BOOLEAN]

ASSUME EvaluateAssumption ==
    /\ Sources \subseteq Source /\ Gates \subseteq Gate
    /\ \A s \in Sources : \A i \in 1..Len(s.cmds) :
           s.cmds[i] = "allowWord" => s.word
    /\ \A s \in Sources : s.word => s.cmds # <<>>
    /\ \A s \in Sources : s.text # "accepted" =>
           s.cmds = <<>> /\ ~s.io /\ ~s.arith
    /\ MaxResults \in Nat \ {0} /\ Capacities \subseteq Nat /\ MaxCalls \in Nat

Verdicts == {"ALLOW", "ALLOW_CONDITIONAL", "DENY", "REJECT", "UNDETERMINED"}
Statuses == {"OK", "BLANK", "PARSE", "TRUNC", "MEMORY", "EXPAND"}

VARIABLES
    source, gate,
    pc,         \* next step of the call, or "idle" and "done" around it
    calls,      \* calls made for this source
    room,       \* strings that still fit in the result buffer
    overflow,   \* bw.overflow
    verdict, status, truncated,     \* the result
    capped,     \* the parse was cut; in the end, subcommand_truncated
    violationsCapped,               \* violation_truncated
    results,    \* verdicts of out->subcommands
    kept,       \* commands the graph retained
    stopped,    \* stopped_early
    failure,    \* evaluation_error, or "OK"
    detected,   \* anomaly_detected
    learned,    \* times the models learned this source
    retained    \* times its scores entered the calibration

request == <<source, gate>>
outcome == <<verdict, status, truncated>>
walk    == <<results, kept, stopped, failure>>
memory  == <<learned, retained>>
vars == <<request, pc, calls, room, overflow, outcome, capped, violationsCapped,
          walk, detected, memory>>

Fresh ==    \* memset(out), verdict = SG_VERDICT_ALLOW
    /\ verdict' = "ALLOW" /\ status' = "OK" /\ truncated' = FALSE
    /\ capped' = FALSE /\ violationsCapped' = FALSE
    /\ results' = <<>> /\ kept' = 0 /\ stopped' = FALSE /\ failure' = "OK"
    /\ detected' = FALSE /\ overflow' = FALSE

Init ==
    /\ source \in Sources /\ gate \in Gates
    /\ pc = "idle" /\ calls = 0 /\ room = 0 /\ overflow = FALSE
    /\ verdict = "UNDETERMINED" /\ status = "OK" /\ truncated = FALSE
    /\ capped = FALSE /\ violationsCapped = FALSE
    /\ results = <<>> /\ kept = 0 /\ stopped = FALSE /\ failure = "OK"
    /\ detected = FALSE /\ learned = 0 /\ retained = 0

(* A first call, or a retry after a result that asks for a larger buffer. *)
Call(capacity) ==
    /\ pc = "idle" \/ (pc = "done" /\ status \in {"TRUNC", "MEMORY"})
    /\ calls < MaxCalls /\ calls' = calls + 1
    /\ room' = capacity
    /\ Fresh
    /\ pc' = "parse"
    /\ UNCHANGED <<request, memory>>

-------------------------------------------------------------------------------
Return(v, s, t) ==
    /\ pc' = "done"
    /\ verdict' = v /\ status' = s /\ truncated' = t
    /\ UNCHANGED <<request, calls, memory>>

Undetermined(s, t) ==       \* sg_fail_undetermined and its unrolled forms
    /\ Return("UNDETERMINED", s, t)
    /\ UNCHANGED <<room, overflow, walk, detected>>

(* A rejection has one synthetic result, whose reason must fit. *)
Refuse(s) ==
    /\ IF room = 0 THEN Return("UNDETERMINED", "TRUNC", TRUE)
                   ELSE Return("REJECT", s, FALSE)
    /\ results' = <<"REJECT">>
    /\ UNCHANGED <<room, overflow, violationsCapped, kept, stopped, failure,
                   detected>>

Blank ==
    /\ pc = "parse" /\ source.text = "blank"
    /\ Return("ALLOW", "BLANK", FALSE)
    /\ UNCHANGED <<room, overflow, capped, violationsCapped, walk, detected>>

ParseRefuses ==
    /\ pc = "parse"
    /\ \/ source.text = "malformed" /\ Refuse("PARSE")
       \/ source.text = "unsupported" /\ Refuse("OK")
    /\ UNCHANGED capped

(* Validation ran out of capacity before any command was found. *)
ParseExhausted ==
    /\ pc = "parse" /\ source.text # "blank"
    /\ Undetermined("TRUNC", TRUE)
    /\ capped' = TRUE
    /\ UNCHANGED violationsCapped

(* The parse keeps all commands, or the prefix its capacity allows; what   *)
(* is wrong with the text may be left for the graph to find.               *)
Parsed ==
    /\ pc = "parse" /\ source.text \in {"accepted", "malformed"}
    /\ capped' \in BOOLEAN
    /\ pc' = "graph"
    /\ UNCHANGED <<request, calls, room, overflow, outcome, violationsCapped,
                   walk, detected, memory>>

(* Workspaces and word expansion; a diagnostic that does not fit truncates. *)
(* A result that ends here does not tell that the parse was cut.            *)
GraphFails ==
    /\ pc = "graph"
    /\ \/ Undetermined("MEMORY", room = 0)
       \/ Undetermined("EXPAND", room = 0)
       \/ Undetermined("TRUNC", TRUE)
    /\ capped' = FALSE /\ UNCHANGED violationsCapped

GraphRefuses ==
    /\ pc = "graph" /\ source.text = "malformed"
    /\ Refuse("PARSE") /\ capped' = FALSE

ViolationsOverflow ==
    /\ pc = "graph" /\ source.text = "accepted" /\ room = 0
    /\ Undetermined("TRUNC", TRUE)
    /\ violationsCapped' = TRUE /\ capped' = FALSE

(* The graph retains the commands, all of them unless a capacity was hit,  *)
(* and the scan lists the violations it has place and room for.  Those     *)
(* that find no place are counted as dropped, and the call goes on.         *)
GraphBuilt ==
    /\ pc = "graph" /\ source.text = "accepted"
    /\ capped' \in {c \in BOOLEAN : capped => c}
    /\ kept' \in {n \in 0..Len(source.cmds) : capped' \/ n = Len(source.cmds)}
    /\ violationsCapped' \in {c \in BOOLEAN :
           c => source.cmds # <<>> \/ source.io \/ source.arith}
    /\ room' \in {room, room - 1} \cap Nat
    /\ pc' = "score"
    /\ UNCHANGED <<request, calls, overflow, outcome, results, stopped, failure,
                   detected, memory>>

ScoreFails ==
    /\ pc = "score" /\ gate.anomaly /\ ~capped
    /\ \/ Undetermined("MEMORY", FALSE)
       \/ Undetermined("PARSE", FALSE)
       \/ Undetermined("TRUNC", TRUE)
    /\ UNCHANGED <<capped, violationsCapped>>

(* Only a complete sequence of three or more stages can be flagged. *)
Scored ==
    /\ pc = "score"
    /\ detected' \in {d \in BOOLEAN :
                        d => gate.anomaly /\ ~capped /\ source.stages >= 3}
    /\ pc' = "walk"
    /\ UNCHANGED <<request, calls, room, overflow, outcome, capped,
                   violationsCapped, walk, memory>>

-------------------------------------------------------------------------------
(* The loop over the commands. *)

Index    == Len(results) + 1
Current  == source.cmds[Index]
Walking  == /\ pc = "walk" /\ ~stopped
            /\ Len(results) < kept /\ Len(results) < MaxResults

(* Rendering fails: the entry stays as memset left it, that is "ALLOW". *)
RenderFails ==
    /\ Walking
    /\ results' = Append(results, "ALLOW")
    /\ \/ Return("UNDETERMINED", "TRUNC", TRUE)
       \/ Return("UNDETERMINED", "PARSE", FALSE)
    /\ UNCHANGED <<room, overflow, capped, violationsCapped, kept, stopped,
                   failure, detected>>

Stops(v) ==
    CASE gate.stop = "firstFail"  -> v = "UNDETERMINED"
      [] gate.stop = "firstPass"  -> v # "UNDETERMINED"
      [] gate.stop = "firstAllow" -> v = "ALLOW"
      [] gate.stop = "firstDeny"  -> v = "DENY"
      [] OTHER                    -> FALSE

(* The deny policy is asked first; the verdict of one command. *)
Answered(failed) ==
    IF failed \/ Current = "none" THEN "UNDETERMINED"
    ELSE IF Current = "deny" THEN "DENY" ELSE "ALLOW"

(* The command, alone or with a reason or suggestions. *)
Strings == 1..2

Write(n) ==
    /\ overflow' = (overflow \/ room < n)
    /\ room' = IF room < n THEN 0 ELSE room - n

EvaluateCommand ==
    /\ Walking /\ room > 0 /\ ~overflow
    /\ \E failed \in BOOLEAN, e \in {"MEMORY", "PARSE"}, n \in Strings :
           /\ results' = Append(results, Answered(failed))
           /\ failure' = IF failed THEN e ELSE failure
           /\ stopped' = Stops(Answered(failed))
           /\ Answered(failed) = "DENY" => n > 1
           /\ Write(n)
    /\ UNCHANGED <<request, pc, calls, outcome, capped, violationsCapped, kept,
                   detected, memory>>

(* A suggestion does not fit at all, or cannot be rendered. *)
SuggestionFails ==
    /\ Walking /\ room > 0 /\ ~overflow /\ Current # "deny"
    /\ results' = Append(results, Answered(FALSE))
    /\ \/ /\ \E n \in Strings : room <= n
          /\ Return("UNDETERMINED", "TRUNC", TRUE)
          /\ UNCHANGED <<stopped, failure>>
       \/ /\ failure' \in (IF failure = "OK" THEN {"MEMORY", "PARSE"}
                                            ELSE {failure})
          /\ stopped' = Stops(Answered(FALSE))
          /\ UNCHANGED <<request, pc, calls, outcome, memory>>
    /\ Write(1)
    /\ UNCHANGED <<capped, violationsCapped, kept, detected>>

WalkedPrefix ==         \* faulty variant: a full result array is no truncation
    /\ pc = "walk"
    /\ stopped \/ Len(results) = kept \/ Len(results) = MaxResults
    /\ results' = [i \in 1..Len(results) |->
                     IF source.cmds[i] = "allowWord" /\ results[i] = "ALLOW"
                     THEN "ALLOW_CONDITIONAL" ELSE results[i]]
    /\ pc' = "conclude"
    /\ UNCHANGED <<request, calls, room, overflow, outcome, capped,
                   violationsCapped, kept, stopped, failure, detected, memory>>

(* The loop ends, at the cap with commands left over; then substitution     *)
(* routes make the results of their consumers conditional.                  *)
Walked ==
    /\ pc = "walk"
    /\ stopped \/ Len(results) = kept \/ Len(results) = MaxResults
    /\ capped' = (capped \/ (~stopped /\ Len(results) < kept))
    /\ results' = [i \in 1..Len(results) |->
                     IF source.cmds[i] = "allowWord" /\ results[i] = "ALLOW"
                     THEN "ALLOW_CONDITIONAL" ELSE results[i]]
    /\ pc' = "conclude"
    /\ UNCHANGED <<request, calls, room, overflow, outcome, violationsCapped,
                   kept, stopped, failure, detected, memory>>

ShortCircuited == stopped /\ Len(results) < kept

-------------------------------------------------------------------------------
Given(v) == \E i \in 1..Len(results) : results[i] = v

AggregateMasked ==      \* faulty variant: redirect-only commands go first
    IF source.io \/ source.arith THEN "UNDETERMINED"
    ELSE IF Given("DENY") THEN "DENY"
    ELSE IF Given("UNDETERMINED") THEN "UNDETERMINED"
    ELSE IF source.word THEN "ALLOW_CONDITIONAL" ELSE "ALLOW"

Aggregate ==
    IF Given("DENY") THEN "DENY"
    ELSE IF source.io \/ source.arith \/ Given("UNDETERMINED")
    THEN "UNDETERMINED"
    ELSE IF source.word \/ Given("ALLOW_CONDITIONAL") THEN "ALLOW_CONDITIONAL"
    ELSE "ALLOW"

ConcludeLearns ==       \* faulty variant: learns before the last string fits
    /\ pc = "conclude" /\ ~capped /\ failure = "OK"
    /\ results # <<>> \/ source.io
    /\ Write(IF source.io /\ ~Given("DENY") THEN 1 ELSE 0)
    /\ verdict' = IF overflow' THEN "UNDETERMINED" ELSE Aggregate
    /\ status'  = IF overflow' THEN "TRUNC" ELSE "OK"
    /\ truncated' = overflow'
    /\ pc' = "done"
    /\ learned' = IF gate.anomaly THEN learned + 1 ELSE learned
    /\ UNCHANGED <<request, calls, walk, detected, retained, capped,
                   violationsCapped>>

(* Truncation, then errors, then the verdict of the results; the reason for *)
(* a redirect-only command is the last string written.                      *)
Conclude ==
    /\ pc = "conclude"
    /\ \/ /\ capped
          /\ Undetermined("TRUNC", TRUE)
       \/ /\ ~capped /\ failure # "OK"
          /\ Undetermined(failure, overflow)
       \/ /\ ~capped /\ failure = "OK" /\ results = <<>> /\ ~source.io
          /\ IF overflow THEN Undetermined("TRUNC", TRUE)
             ELSE /\ Return(IF source.arith THEN "UNDETERMINED" ELSE "ALLOW",
                            "OK", FALSE)
                  /\ UNCHANGED <<room, overflow, walk, detected>>
       \/ /\ ~capped /\ failure = "OK" /\ (results # <<>> \/ source.io)
          /\ Write(IF source.io /\ ~Given("DENY") THEN 1 ELSE 0)
          /\ verdict' = IF overflow' THEN "UNDETERMINED" ELSE Aggregate
          /\ status'  = IF overflow' THEN "TRUNC" ELSE "OK"
          /\ truncated' = overflow'
          /\ pc' = IF overflow' THEN "done" ELSE "learn"
          /\ UNCHANGED <<request, calls, walk, detected, memory>>
    /\ UNCHANGED <<capped, violationsCapped>>

(* SG_EXPANSION_UNRESOLVED_ARITHMETIC keeps a sequence out of the models.   *)
Learnable == gate.anomaly /\ source.stages > 0 /\ ~source.arith

ShouldLearn ==
    /\ gate.onlyOnAllow => verdict = "ALLOW"
    /\ gate.skipDetected => ~detected

Record == retained' = IF ~detected /\ source.stages >= 3 THEN retained + 1
                                                         ELSE retained

(* The deferred update of the two models, and the record of the scores.    *)
(* Learning that runs out of memory or space is no error, but the sample   *)
(* then does not count; a malformed sequence is an error.                  *)
Learn ==
    /\ pc = "learn" /\ pc' = "done"
    /\ \/ /\ Learnable /\ ShouldLearn
          /\ \/ learned' = learned + 1 /\ Record /\ UNCHANGED outcome
             \/ UNCHANGED <<memory, outcome>>
             \/ /\ verdict' = "UNDETERMINED" /\ status' = "PARSE"
                /\ UNCHANGED <<memory, truncated>>
       \/ Learnable /\ ~ShouldLearn /\ Record /\ UNCHANGED <<learned, outcome>>
       \/ ~Learnable /\ UNCHANGED <<memory, outcome>>
    /\ UNCHANGED <<request, calls, room, overflow, capped, violationsCapped,
                   walk, detected>>

Next ==
    \/ \E capacity \in Capacities : Call(capacity)
    \/ Blank \/ ParseRefuses \/ ParseExhausted \/ Parsed
    \/ GraphFails \/ GraphRefuses \/ ViolationsOverflow \/ GraphBuilt
    \/ ScoreFails \/ Scored
    \/ RenderFails \/ EvaluateCommand \/ SuggestionFails \/ Walked
    \/ Conclude \/ Learn

Spec == Init /\ [][Next]_vars

-------------------------------------------------------------------------------
Done     == pc = "done"
Permits  == {"ALLOW", "ALLOW_CONDITIONAL"}
Seen     == {source.cmds[i] : i \in 1..Len(results)}

(* "callers authorizing the whole input must require [short_circuited] to  *)
(* be false" (shellgate.h:799): what is then permitted was evaluated and   *)
(* allowed to the last command, whatever failed or was cut on the way, and *)
(* only a command line without shell-word substitutions unconditionally.   *)
AuthorizesWhole ==
    Done /\ verdict \in Permits /\ ~ShortCircuited =>
        /\ status \in {"OK", "BLANK"} /\ ~truncated
        /\ Len(results) = Len(source.cmds)
        /\ Seen \subseteq Allowing /\ ~source.io /\ ~source.arith
        /\ verdict = "ALLOW" => ~source.word

(* The verdict starts as ALLOW; no fatal failure, no string that does not   *)
(* fit and no command left out leaves it so (shellgate.h:784-795).  Only    *)
(* what the text itself is wrong in rejects.  The header counts a full      *)
(* violation list among the truncations (shellgate.h:781-782); the code     *)
(* does not: if its strings fit, the call goes on with SG_OK and the        *)
(* verdict of the policies (shellgate.c:4328), and this property says       *)
(* nothing of violationsCapped.                                             *)
FailsUndetermined ==
    Done =>
        /\ truncated \/ capped => verdict = "UNDETERMINED"
        /\ status = "TRUNC" => truncated
        /\ status \notin {"OK", "BLANK"} =>
               verdict \in {"UNDETERMINED", "REJECT"}
        /\ verdict = "REJECT" => source.text \in {"malformed", "unsupported"}

(* "Early-stop modes preserve their prefix verdict" (shellgate.h:798): the *)
(* verdict of a successful call is that of the evaluated commands; a       *)
(* redirect-only command or unresolved arithmetic neither hides a denial   *)
(* nor inherits an authorization.  With the modes that do not stop at      *)
(* other answers, a denied command anywhere in the input is reported.      *)
VerdictExact ==
    /\ FailsUndetermined
    /\ Done /\ status = "OK" =>
        /\ source.text = "accepted" =>
              verdict = IF "deny" \in Seen THEN "DENY"
                        ELSE IF source.io \/ source.arith \/ "none" \in Seen
                        THEN "UNDETERMINED"
                        ELSE IF source.word THEN "ALLOW_CONDITIONAL" ELSE "ALLOW"
        /\ gate.stop \in {"all", "firstDeny"}
             /\ (\E i \in 1..Len(source.cmds) : source.cmds[i] = "deny") =>
              verdict = "DENY"

(* A caller "may grow its buffer and retry the same evaluation without     *)
(* counting that source record twice" (shellgate.h:787): over all calls    *)
(* the models and the calibration take a source once, in the call that     *)
(* answers it.                                                             *)
LearnsOnce ==
    /\ learned <= 1 /\ retained <= 1
    /\ learned + retained > 0 => Done /\ status = "OK" /\ ~truncated
===============================================================================
