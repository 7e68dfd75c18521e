------------------------------ MODULE MCFmcAlias ------------------------------
(***************************************************************************)
(* Model-checking instance of FmcAlias: two PCR0 values and two FMC TCIs   *)
(* so that the binding to the measurement is observable, SVNs at the u8    *)
(* boundary's safe side and at MAX_FIRMWARE_SVN, all three lifecycles.     *)
(***************************************************************************)
EXTENDS FmcAlias

MCFuseBank == [anti_rollback_disable |-> FALSE, vendor_pub_key_info_hash |-> "vh"]
MCFwProcInfo == [effective_fuse_svn |-> 1, pqc_key_type |-> "MLDSA",
                 owner_pub_keys_digest_in_fuses |-> TRUE]
=============================================================================
