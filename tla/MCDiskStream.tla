---------------------------- MODULE MCDiskStream ----------------------------
EXTENDS DiskStream

AllCommands == {"start", "stop", "locate", "record", "overwrite"}
SomeTargets == {2}
=============================================================================
