----------------------------- MODULE MCSourceRuntime -----------------------------
(* A document with two array candidates and a short conditional; a nested *)
(* consumer reads a part of the first, without candidates, or the other    *)
(* text.  The generation wraps after two operations, three facts compete   *)
(* for two slots, one array fact fits inline, and a workspace is either    *)
(* larger or no larger than the arena inside an operation.                 *)
EXTENDS SourceRuntime

MCRoots     == {<<1, 3>>, <<5, 5>>}
MCParts     == {<<2, 3>>, <<5, 5>>}
MCDocuments == {<<1, 3>>}
MCConditionals == {<<5, 5>>}
MCWorkspace == [v \in MCRoots |-> 2]
MCBrackets  == [v \in MCRoots \cup MCParts |->
                   CASE v = <<1, 3>> -> 2 [] v = <<2, 3>> -> 0 [] v = <<5, 5>> -> 1]
MCSize      == [b \in {"B1", "B2"} |-> IF b = "B1" THEN 3 ELSE 1]
===============================================================================
