---------------------------- MODULE MCGateEvaluate ----------------------------
(* Every line of up to Longest commands, shorter ones also with one of the *)
(* things that cut across commands, under every stop mode.                 *)
(*                                                                         *)
(* The call builds the graph between Parsed and GraphBuilt; there the      *)
(* commands are read, one step of ShellRun each, and the graph is built    *)
(* when all are.  How a line is read depends neither on the gate nor on    *)
(* what policies answer, so this is followed for the longest lines, one    *)
(* gate, one answer and the first call; otherwise the graph is built at    *)
(* once.                                                                   *)
EXTENDS GateEvaluate, MCShellRun

CONSTANT Longest    \* commands of the longest line

LinesTo(n) == UNION {[1..k -> Answers] : k \in 0..n}

Short == LinesTo(Longest - 1)

Plain(cmds) ==
    [text |-> "accepted", cmds |-> cmds, io |-> FALSE, arith |-> FALSE,
     word |-> \E i \in 1..Len(cmds) : cmds[i] = "allowWord",
     stages |-> Len(cmds)]

Unparsed(text) == [Plain(<<>>) EXCEPT !.text = text]

MCSources ==
    {Unparsed(text) : text \in {"blank", "malformed", "unsupported"}}
    \cup {Plain(c) : c \in LinesTo(Longest)}
    \cup {[Plain(c) EXCEPT !.io = TRUE, !.stages = @ + 1] : c \in Short}
    \cup {[Plain(c) EXCEPT !.arith = TRUE] : c \in Short}
    \cup {[Plain(c) EXCEPT !.word = TRUE] : c \in Short \ {<<>>}}

Config(stop, onlyOnAllow, skip) ==
    [stop |-> stop, anomaly |-> TRUE, onlyOnAllow |-> onlyOnAllow,
     skipDetected |-> skip]

MCGates == {Config(stop, FALSE, TRUE) : stop \in Modes}
           \cup {Config("all", TRUE, TRUE), Config("all", FALSE, FALSE),
                 [Config("all", FALSE, TRUE) EXCEPT !.anomaly = FALSE]}

-------------------------------------------------------------------------------
Followed ==
    /\ pc = "graph" /\ calls = 1 /\ ~capped
    /\ gate = Config("all", FALSE, TRUE)
    /\ source = Plain([i \in 1..Longest |-> "none"])
    /\ \A c \in Capacities : c <= room

AllRead == depth = 0 /\ commands = Longest

(* The status before the line is any; the workspace of a graph is new. *)
NewGraph(real) ==
    /\ depth' = 0 /\ commands' = 0 /\ groups' = 0
    /\ scopes' = [d \in 0..MaxDepth |-> IF d = 0 THEN Line ELSE Unused]
    /\ shells' = Alone(real)

ReadOn == Followed /\ RunNext /\ UNCHANGED vars

Evaluate ==
    /\ Next
    /\ pc' = "score" /\ Followed => AllRead
    /\ IF Followed' THEN \E real \in {"ok", "fail"} : NewGraph(real)
       ELSE IF Followed THEN NewGraph("ok")
       ELSE UNCHANGED runVars

MCInit == Init /\ FlowInit /\ shells = Alone("ok")
MCNext == ReadOn \/ Evaluate
MCSpec == MCInit /\ [][MCNext]_<<vars, runVars>>
===============================================================================
