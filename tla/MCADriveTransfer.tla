--------------------------- MODULE MCADriveTransfer ---------------------------
(* Instances of ADriveTransfer for TLC. *)
EXTENDS ADriveTransfer

Cmd(command, streaming, from, to, filtered, checkpoint, delete, strategy) ==
    [command |-> command, streaming |-> streaming, from |-> from, to |-> to,
     filtered |-> filtered, checkpoint |-> checkpoint, delete |-> delete,
     strategy |-> strategy]

\* The commands, stages and directions, each in two or more of its variants.
Tried == {
    Cmd("cp", FALSE, "remote", "local", TRUE, FALSE, FALSE, "force"),
    Cmd("cp", TRUE, "local", "remote", TRUE, FALSE, FALSE, "no-clobber"),
    Cmd("sync", FALSE, "local", "remote", TRUE, TRUE, TRUE, "force"),
    Cmd("sync", TRUE, "remote", "local", TRUE, TRUE, TRUE, "force"),
    Cmd("sync", FALSE, "remote", "remote", FALSE, TRUE, TRUE, "newer"),
    Cmd("mv", FALSE, "local", "remote", FALSE, FALSE, FALSE, "force"),
    Cmd("mv", FALSE, "remote", "local", TRUE, FALSE, FALSE, "force"),
    Cmd("mv", TRUE, "local", "remote", TRUE, FALSE, FALSE, "force"),
    Cmd("mv", TRUE, "remote", "remote", FALSE, FALSE, FALSE, "force")}

\* sync as its guide shows it, in both directions.
Repeated == {
    Cmd("sync", FALSE, "local", "remote", FALSE, TRUE, FALSE, "force"),
    Cmd("sync", TRUE, "remote", "local", FALSE, TRUE, FALSE, "force")}
=============================================================================
