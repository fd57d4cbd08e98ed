------------------------------- MODULE MCShellRun -------------------------------
(* Four commands: true, cd /a, exit, and cd ${u?}$((1/x)), the expansion of *)
(* whose word may end the shell or abort the input unit.                    *)
EXTENDS ShellRun

Does(outcomes, errors, moves) ==
    [outcomes |-> outcomes, errors |-> errors, moves |-> moves]

MCCommands ==
    {Does({"ok"}, {}, Stay), Does(Returning, {}, "/a"), Does({Bare}, {}, Stay),
     Does(Returning, {"exitFail", "abort"}, Anywhere)}
===============================================================================
