---------------------------- MODULE MCFwProcMailbox ----------------------------
(***************************************************************************)
(* Model-checking instances of FwProcMailbox: a stash limit of 3 (8 in the *)
(* ROM) so that the limit is reached after a few commands, a measurement   *)
(* log of as many entries, two distinct measurements.                      *)
(***************************************************************************)
EXTENDS FwProcMailbox

MCAllCommands == Commands
MCStashOnly == {"STASH_MEASUREMENT"}
MCSelfTestOnly == {"SELF_TEST_START", "SELF_TEST_GET_RESULTS"}
MCRiOnly == {"RI_DOWNLOAD_FIRMWARE"}
MCStashOrRi == MCStashOnly \cup MCRiOnly
=============================================================================
