----------------------------- MODULE MCDualBank -----------------------------
(* Values of the constants of DualBank that a configuration file cannot write. *)
EXTENDS DualBank
CONSTANTS v0, v1

Fresh(cmds) == [cmds |-> cmds, plausible |-> {v0, v1}, provisioned |-> FALSE]

\* A factory board, updated as the tool does it.
MCTool == {Fresh({"fw", "save", "reset"})}
\* The commands of the application in any order, from two committed banks; and aborts at any
\* step, with those that make a difference to them.
MCField == [cmds |-> {"fw", "fw.any", "fw.again", "bank", "rollback", "update", "reset",
                      "cli.boot", "cli.reset"},
            plausible |-> {v0, v1}, provisioned |-> TRUE]
MCAborts == [cmds |-> {"fw", "fw.again", "fw.abort", "bank", "reset"},
             plausible |-> {v0, v1}, provisioned |-> TRUE]
\* The bootloader's commands, on a factory board with an image whose vectors are bad; those that
\* concern what it starts, with two committed banks.
MCRecovery == [cmds |-> {"update", "cli.bank", "cli.boot", "cli.reset", "cli.rollback",
                         "cli.flash", "cli.erase"},
               plausible |-> {v0}, provisioned |-> FALSE]
MCService == [cmds |-> {"update", "rollback", "cli.bank", "cli.boot", "cli.reset",
                        "cli.rollback", "cli.boot.mode", "cli.erase", "cli.copy"},
              plausible |-> {v0, v1}, provisioned |-> TRUE]
MCCommands == {MCField, MCAborts, MCRecovery, MCService} \cup MCTool
\* A second update before the restart.
MCAgain == {Fresh({"fw", "fw.again", "reset"})}
=============================================================================
