---------------------------- MODULE FwProcMailbox ----------------------------
(***************************************************************************)
(* The cold-boot mailbox command loop of the ROM,                          *)
(* FirmwareProcessor::process_mailbox_commands                             *)
(* (rom/dev/src/flow/cold_reset/fw_processor.rs), with the SoC on the      *)
(* other side of the mailbox and the ROM's fatal-error handler.            *)
(*                                                                         *)
(* The SoC sends one command at a time and releases the mailbox once the   *)
(* ROM has completed it; the ROM handles each command in one step.  A      *)
(* handler that returns an error hands it to the fatal-error handler,      *)
(* which reports it in FW_ERROR_FATAL and then fails the transaction (the  *)
(* transaction is ManuallyDrop so that this order holds).  The loop ends   *)
(* when a firmware image has been received (the transaction is handed to   *)
(* the firmware processor) or in a fatal error.                            *)
(***************************************************************************)
EXTENDS Integers, Sequences

CONSTANTS
    ActiveMode,             \* soc_ifc.active_mode()
    MEASUREMENT_MAX_COUNT,  \* the stash-measurement limit
    MeasLogEntries,         \* length of persistent_data.measurement_log
    Measurements,           \* the measurements the SoC may stash
    CsrProvisioned,         \* the IDevID CSR envelope was written
    EngineFaults,           \* KATs, DMA and PCR extension may fail
    SocCommands             \* the commands the SoC sends

\* The commands the ROM distinguishes; "OTHER" is any other command id.
Commands == {"FIRMWARE_LOAD", "VERSION", "SELF_TEST_START",
             "SELF_TEST_GET_RESULTS", "SHUTDOWN", "CAPABILITIES",
             "STASH_MEASUREMENT", "GET_IDEV_ECC_CSR", "RI_DOWNLOAD_FIRMWARE",
             "OTHER"}

ASSUME MailboxAssumption ==
    /\ ActiveMode \in BOOLEAN
    /\ CsrProvisioned \in BOOLEAN
    /\ EngineFaults \in BOOLEAN
    /\ MEASUREMENT_MAX_COUNT \in Nat
    /\ MeasLogEntries \in Nat
    /\ Measurements # {}
    /\ SocCommands \subseteq Commands
    /\ SocCommands # {}

\* A request: its command, whether it comes from the reserved PAUSER,
\* whether its length and checksum are right (copy_req_verify_chksum), its
\* dlen class (for FIRMWARE_LOAD) and its measurement (for STASH_MEASUREMENT).
\* Fields a command does not read are fixed.
DefaultMeasurement == CHOOSE x \in Measurements : TRUE
Requests ==
    {r \in [cmd : SocCommands, reserved_pauser : BOOLEAN, chk : {"Ok", "BadLength", "BadChecksum"},
            dlen : {"Zero", "InRange", "TooLarge"}, measurement : Measurements] :
        /\ r.cmd # "FIRMWARE_LOAD" => r.dlen = "InRange"
        /\ r.cmd # "STASH_MEASUREMENT" => r.measurement = DefaultMeasurement}

\* Mailbox status as the SoC sees it.
MboxStates == {"Idle", "Execute", "DataReady", "CmdComplete", "CmdFailure"}

NoError == "NO_ERROR"

\* The errors the loop's handlers return (CaliptraError names).
Errors == {NoError, "FW_PROC_MAILBOX_RESERVED_PAUSER",
           "FW_PROC_MAILBOX_FW_LOAD_CMD_IN_ACTIVE_MODE", "FW_PROC_INVALID_IMAGE_SIZE",
           "FW_PROC_MAILBOX_INVALID_REQUEST_LENGTH", "FW_PROC_MAILBOX_INVALID_CHECKSUM",
           "RUNTIME_SHUTDOWN", "ROM_KAT_FAILURE",
           "FW_PROC_MAILBOX_STASH_MEASUREMENT_MAX_LIMIT", "DRIVER_PCR_EXTEND_FAILURE",
           "ROM_GLOBAL_MEASUREMENT_LOG_EXHAUSTED",
           "FW_PROC_MAILBOX_GET_IDEV_CSR_UNPROVISIONED_CSR",
           "FW_PROC_MAILBOX_INVALID_COMMAND", "DRIVER_DMA_FAILURE"}
EmptyEntry == [none |-> TRUE]

VARIABLES
    rom,                    \* "Wait" (polling), "Error", "FwReceived", "Fatal"
    err,                    \* the error a handler returned, for the fatal handler
    mbox,                   \* mailbox status
    req,                    \* the request in the mailbox
    self_test_in_progress,
    meas_log_index,         \* fht.meas_log_index
    meas_log,               \* persistent_data.measurement_log: 0..MeasLogEntries-1
    pcr31,                  \* the measurements extended into PCR31, in order
    fw_error_fatal,
    fw_error_non_fatal

vars == <<rom, err, mbox, req, self_test_in_progress, meas_log_index,
          meas_log, pcr31, fw_error_fatal, fw_error_non_fatal>>

Init ==
    /\ rom = "Wait"
    /\ err = NoError
    /\ mbox = "Idle"
    /\ req = CHOOSE r \in Requests : TRUE
    /\ self_test_in_progress = FALSE
    /\ meas_log_index = 0
    /\ meas_log = [i \in 0..(MeasLogEntries - 1) |-> EmptyEntry]
    /\ pcr31 = << >>
    /\ fw_error_fatal = NoError
    /\ fw_error_non_fatal = NoError

-----------------------------------------------------------------------------
(* The SoC.                                                                *)

\* The SoC writes a request and sets the execute bit.
SocSend(r) ==
    /\ mbox = "Idle"
    /\ rom = "Wait"
    /\ mbox' = "Execute"
    /\ req' = r
    /\ UNCHANGED <<rom, err, self_test_in_progress, meas_log_index, meas_log,
                   pcr31, fw_error_fatal, fw_error_non_fatal>>

\* The SoC reads the completion and clears the execute bit.
SocRelease ==
    /\ mbox \in {"DataReady", "CmdComplete", "CmdFailure"}
    /\ mbox' = "Idle"
    /\ UNCHANGED <<rom, err, req, self_test_in_progress, meas_log_index,
                   meas_log, pcr31, fw_error_fatal, fw_error_non_fatal>>

-----------------------------------------------------------------------------
(* The ROM.                                                                *)

\* copy_req_verify_chksum's error for a malformed request: the length is
\* checked before the checksum.
CopyReqError ==
    IF req.chk = "BadLength" THEN "FW_PROC_MAILBOX_INVALID_REQUEST_LENGTH"
    ELSE "FW_PROC_MAILBOX_INVALID_CHECKSUM"

\* A handler returns error e to the caller, whose error path is fatal.
ReturnError(e) ==
    /\ rom' = "Error"
    /\ err' = e

\* Mutant: log_measurement fills the entry with the whole request.
StashMeasurementWholeRequest ==
    /\ \/ /\ meas_log_index = MEASUREMENT_MAX_COUNT
          /\ mbox' = "CmdFailure"
          /\ ReturnError("FW_PROC_MAILBOX_STASH_MEASUREMENT_MAX_LIMIT")
          /\ UNCHANGED <<meas_log_index, meas_log, pcr31>>
       \/ /\ meas_log_index # MEASUREMENT_MAX_COUNT /\ req.chk # "Ok"
          /\ ReturnError(CopyReqError)
          /\ UNCHANGED <<mbox, meas_log_index, meas_log, pcr31>>
       \/ /\ meas_log_index # MEASUREMENT_MAX_COUNT /\ req.chk = "Ok"
          /\ meas_log_index \in DOMAIN meas_log
          /\ pcr31' = Append(pcr31, req.measurement)
          /\ meas_log' = [meas_log EXCEPT ![meas_log_index] = [measurement |-> req]]
          /\ meas_log_index' = meas_log_index + 1
          /\ mbox' = "DataReady"
          /\ UNCHANGED <<rom, err>>
    /\ UNCHANGED self_test_in_progress

\* Mutant: a failed PCR31 extension is ignored and the measurement logged.
StashMeasurementIgnoreExtendError ==
    /\ \/ /\ meas_log_index = MEASUREMENT_MAX_COUNT
          /\ mbox' = "CmdFailure"
          /\ ReturnError("FW_PROC_MAILBOX_STASH_MEASUREMENT_MAX_LIMIT")
          /\ UNCHANGED <<meas_log_index, meas_log, pcr31>>
       \/ /\ meas_log_index # MEASUREMENT_MAX_COUNT /\ req.chk = "Ok"
          /\ meas_log_index \in DOMAIN meas_log
          /\ pcr31' \in {pcr31, Append(pcr31, req.measurement)}
          /\ meas_log' = [meas_log EXCEPT ![meas_log_index] =
                              [measurement |-> req.measurement]]
          /\ meas_log_index' = meas_log_index + 1
          /\ mbox' = "DataReady"
          /\ UNCHANGED <<rom, err>>
    /\ UNCHANGED self_test_in_progress

\* Mutant: log_measurement before the PCR31 extension, whose failure then
\* leaves the measurement logged.
StashMeasurementLogFirst ==
    /\ \/ /\ meas_log_index = MEASUREMENT_MAX_COUNT
          /\ mbox' = "CmdFailure"
          /\ ReturnError("FW_PROC_MAILBOX_STASH_MEASUREMENT_MAX_LIMIT")
          /\ UNCHANGED <<meas_log_index, meas_log, pcr31>>
       \/ /\ meas_log_index # MEASUREMENT_MAX_COUNT /\ req.chk # "Ok"
          /\ ReturnError(CopyReqError)
          /\ UNCHANGED <<mbox, meas_log_index, meas_log, pcr31>>
       \/ /\ meas_log_index # MEASUREMENT_MAX_COUNT /\ req.chk = "Ok"
          /\ meas_log_index \in DOMAIN meas_log
          /\ meas_log' = [meas_log EXCEPT ![meas_log_index] =
                              [measurement |-> req.measurement]]
          /\ meas_log_index' = meas_log_index + 1
          /\ \/ /\ EngineFaults
                /\ ReturnError("DRIVER_PCR_EXTEND_FAILURE")
                /\ UNCHANGED <<mbox, pcr31>>
             \/ /\ pcr31' = Append(pcr31, req.measurement)
                /\ mbox' = "DataReady"
                /\ UNCHANGED <<rom, err>>
    /\ UNCHANGED self_test_in_progress

\* STASH_MEASUREMENT: at the limit the transaction is failed and the limit
\* error returned; otherwise copy_req_verify_chksum, extend PCR31
\* (extend_measurement), log_measurement into the next entry, respond.
StashMeasurement ==
    /\ \/ /\ meas_log_index = MEASUREMENT_MAX_COUNT
          /\ mbox' = "CmdFailure"
          /\ ReturnError("FW_PROC_MAILBOX_STASH_MEASUREMENT_MAX_LIMIT")
          /\ UNCHANGED <<meas_log_index, meas_log, pcr31>>
       \/ /\ meas_log_index # MEASUREMENT_MAX_COUNT /\ req.chk # "Ok"
          /\ ReturnError(CopyReqError)
          /\ UNCHANGED <<mbox, meas_log_index, meas_log, pcr31>>
       \/ /\ meas_log_index # MEASUREMENT_MAX_COUNT /\ req.chk = "Ok" /\ EngineFaults
          /\ ReturnError("DRIVER_PCR_EXTEND_FAILURE")
          /\ UNCHANGED <<mbox, meas_log_index, meas_log, pcr31>>
       \/ /\ meas_log_index # MEASUREMENT_MAX_COUNT /\ req.chk = "Ok"
          /\ pcr31' = Append(pcr31, req.measurement)
          /\ IF meas_log_index \in DOMAIN meas_log
             THEN /\ meas_log' = [meas_log EXCEPT ![meas_log_index] =
                                      [measurement |-> req.measurement]]
                  /\ meas_log_index' = meas_log_index + 1
                  /\ mbox' = "DataReady"
                  /\ UNCHANGED <<rom, err>>
             ELSE /\ ReturnError("ROM_GLOBAL_MEASUREMENT_LOG_EXHAUSTED")
                  /\ UNCHANGED <<mbox, meas_log_index, meas_log>>
    /\ UNCHANGED self_test_in_progress

\* One pass of the loop with a command in the mailbox: peek_recv sees it,
\* FW_ERROR_NON_FATAL is cleared, then the command's handler runs.  Each
\* disjunct is one outcome of the handler; mbox' is what the handler's
\* send_response or complete leaves for the SoC.
HandleCommand ==
  LET c == req.cmd
      ok == req.chk = "Ok"
  IN
  /\ rom = "Wait"
  /\ mbox = "Execute"
  /\ fw_error_non_fatal' = NoError
  /\ \/ /\ req.reserved_pauser
        /\ ReturnError("FW_PROC_MAILBOX_RESERVED_PAUSER")
        /\ UNCHANGED <<mbox, self_test_in_progress, meas_log_index, meas_log, pcr31>>
     \/ /\ ~req.reserved_pauser /\ c = "FIRMWARE_LOAD"
        /\ \/ /\ ActiveMode
              /\ ReturnError("FW_PROC_MAILBOX_FW_LOAD_CMD_IN_ACTIVE_MODE")
           \/ /\ ~ActiveMode /\ req.dlen # "InRange"
              /\ ReturnError("FW_PROC_INVALID_IMAGE_SIZE")
           \/ /\ ~ActiveMode /\ req.dlen = "InRange"
              /\ rom' = "FwReceived"
              /\ UNCHANGED err
        /\ UNCHANGED <<mbox, self_test_in_progress, meas_log_index, meas_log, pcr31>>
     \/ /\ ~req.reserved_pauser /\ c \in {"VERSION", "CAPABILITIES", "SHUTDOWN"}
        /\ \/ /\ ~ok
              /\ ReturnError(CopyReqError)
              /\ UNCHANGED mbox
           \/ /\ ok /\ c # "SHUTDOWN"
              /\ mbox' = "DataReady"
              /\ UNCHANGED <<rom, err>>
           \/ /\ ok /\ c = "SHUTDOWN"
              /\ mbox' = "DataReady"
              /\ ReturnError("RUNTIME_SHUTDOWN")
        /\ UNCHANGED <<self_test_in_progress, meas_log_index, meas_log, pcr31>>
     \/ /\ ~req.reserved_pauser /\ c = "SELF_TEST_START"
        /\ \/ /\ ~ok
              /\ ReturnError(CopyReqError)
              /\ UNCHANGED <<mbox, self_test_in_progress>>
           \/ /\ ok /\ self_test_in_progress
              /\ mbox' = "CmdFailure"
              /\ UNCHANGED <<rom, err, self_test_in_progress>>
           \/ /\ ok /\ ~self_test_in_progress /\ EngineFaults
              /\ ReturnError("ROM_KAT_FAILURE")
              /\ UNCHANGED <<mbox, self_test_in_progress>>
           \/ /\ ok /\ ~self_test_in_progress
              /\ mbox' = "DataReady"
              /\ self_test_in_progress' = TRUE
              /\ UNCHANGED <<rom, err>>
        /\ UNCHANGED <<meas_log_index, meas_log, pcr31>>
     \/ /\ ~req.reserved_pauser /\ c = "SELF_TEST_GET_RESULTS"
        /\ \/ /\ ~ok
              /\ ReturnError(CopyReqError)
              /\ UNCHANGED <<mbox, self_test_in_progress>>
           \/ /\ ok /\ ~self_test_in_progress
              /\ mbox' = "CmdFailure"
              /\ UNCHANGED <<rom, err, self_test_in_progress>>
           \/ /\ ok /\ self_test_in_progress
              /\ mbox' = "DataReady"
              /\ self_test_in_progress' = FALSE
              /\ UNCHANGED <<rom, err>>
        /\ UNCHANGED <<meas_log_index, meas_log, pcr31>>
     \/ /\ ~req.reserved_pauser /\ c = "STASH_MEASUREMENT"
        /\ StashMeasurement
     \/ /\ ~req.reserved_pauser /\ c = "GET_IDEV_ECC_CSR"
        /\ \/ /\ ~ok
              /\ ReturnError(CopyReqError)
              /\ UNCHANGED mbox
           \/ /\ ok /\ ~CsrProvisioned
              /\ ReturnError("FW_PROC_MAILBOX_GET_IDEV_CSR_UNPROVISIONED_CSR")
              /\ UNCHANGED mbox
           \/ /\ ok /\ CsrProvisioned
              /\ mbox' = "DataReady"
              /\ UNCHANGED <<rom, err>>
        /\ UNCHANGED <<self_test_in_progress, meas_log_index, meas_log, pcr31>>
     \/ /\ ~req.reserved_pauser /\ c = "RI_DOWNLOAD_FIRMWARE"
        /\ \/ /\ ~ActiveMode
              /\ mbox' = "CmdFailure"
              /\ ReturnError("FW_PROC_MAILBOX_INVALID_COMMAND")
           \/ /\ ActiveMode /\ EngineFaults
              /\ ReturnError("DRIVER_DMA_FAILURE")
              /\ UNCHANGED mbox
           \/ /\ ActiveMode
              /\ rom' = "FwReceived"
              /\ UNCHANGED <<mbox, err>>
        /\ UNCHANGED <<self_test_in_progress, meas_log_index, meas_log, pcr31>>
     \/ /\ ~req.reserved_pauser /\ c = "OTHER"
        /\ ReturnError("FW_PROC_MAILBOX_INVALID_COMMAND")
        /\ UNCHANGED <<mbox, self_test_in_progress, meas_log_index, meas_log, pcr31>>
  /\ UNCHANGED <<req, fw_error_fatal>>

\* Mutant: the fatal handler leaves the transaction executing.
FatalHandlerNoComplete ==
    /\ rom = "Error"
    /\ rom' = "Fatal"
    /\ fw_error_fatal' = err
    /\ UNCHANGED <<mbox, err, req, self_test_in_progress, meas_log_index, meas_log,
                   pcr31, fw_error_non_fatal>>

\* handle_fatal_error: FW_ERROR_FATAL is written first, then a transaction
\* still executing is completed with failure; the ROM halts.
FatalHandler ==
    /\ rom = "Error"
    /\ rom' = "Fatal"
    /\ fw_error_fatal' = err
    /\ mbox' = IF mbox = "Execute" THEN "CmdFailure" ELSE mbox
    /\ UNCHANGED <<err, req, self_test_in_progress, meas_log_index, meas_log,
                   pcr31, fw_error_non_fatal>>

Next ==
    \/ \E r \in Requests : SocSend(r)
    \/ SocRelease
    \/ HandleCommand
    \/ FatalHandler

\* The ROM polls the mailbox in a loop on a core that runs nothing else, and
\* the fatal handler runs as soon as a handler returns: both are weakly fair.
\* The SoC is under no obligation to send anything.
Spec == Init /\ [][Next]_vars /\ WF_vars(HandleCommand) /\ WF_vars(FatalHandler)

-----------------------------------------------------------------------------
(* Properties.                                                             *)

\* Every state variable has the shape the loop gives it.
TypeOK ==
    /\ rom \in {"Wait", "Error", "FwReceived", "Fatal"}
    /\ err \in Errors
    /\ mbox \in MboxStates
    /\ req \in Requests
    /\ self_test_in_progress \in BOOLEAN
    /\ meas_log_index \in 0..MEASUREMENT_MAX_COUNT
    /\ meas_log \in [0..(MeasLogEntries - 1) ->
                        {EmptyEntry} \cup [measurement : Measurements]]
    /\ pcr31 \in Seq(Measurements)
    /\ fw_error_fatal \in Errors
    /\ fw_error_non_fatal \in Errors

\* While the ROM has not failed, PCR31 holds exactly the measurements of
\* the measurement log, in log order: every stashed measurement extended
\* into PCR31 is logged, and only those (the limit check,
\* extend_measurement and log_measurement of STASH_MEASUREMENT, across any
\* sequence of commands).  A failed stash may leave PCR31 ahead of the log,
\* but only on the way to the fatal handler.
MeasurementLogMatchesPcr31 ==
    rom \in {"Wait", "FwReceived"} =>
        pcr31 = [i \in 1..meas_log_index |-> meas_log[i - 1].measurement]

\* Whenever the mailbox shows the SoC a failed command, the ROM has
\* already reported why in FW_ERROR_FATAL or FW_ERROR_NON_FATAL (the
\* ordering rule the ManuallyDrop transactions of process_mailbox_commands
\* exist for).
FailureCarriesError ==
    mbox = "CmdFailure" => fw_error_fatal # NoError \/ fw_error_non_fatal # NoError

\* Every command the SoC sends is eventually completed, or handed to the
\* firmware processor as the firmware image: no path of the loop, or of the
\* fatal handler after it, leaves the SoC waiting.
CommandEventuallyCompleted ==
    mbox = "Execute" ~> (mbox # "Execute" \/ rom = "FwReceived")

-----------------------------------------------------------------------------
(* Refinement of MailboxService.                                           *)

\* The loop as the SoC sees it: serving while polling, failed from the
\* moment a handler returned an error, handed over with the firmware load.
ServiceStatus ==
    CASE rom = "Wait" -> "Serving"
      [] rom = "FwReceived" -> "Handed"
      [] OTHER -> "Failed"

\* The mailbox: free, a request in flight, or an answer for the SoC.
ServiceChan ==
    CASE mbox = "Idle" -> "Idle"
      [] mbox = "Execute" -> "Busy"
      [] OTHER -> "Answered"

\* The stashed measurements: the measurement log up to fht.meas_log_index.
LoggedMeasurements == [i \in 1..meas_log_index |-> meas_log[i - 1].measurement]

Service == INSTANCE MailboxService
               WITH MaxStash <- MEASUREMENT_MAX_COUNT,
                    status <- ServiceStatus,
                    chan <- ServiceChan,
                    stashed <- LoggedMeasurements

\* process_mailbox_commands and the fatal handler implement the mailbox
\* service: every step of the loop is a step of MailboxService or leaves
\* what the SoC sees unchanged (in particular a STASH_MEASUREMENT appends
\* exactly the request's measurement to the log, within the limit, and
\* nothing else ever changes the log), and every request in flight is
\* answered, handed on or failed.
ImplementsMailboxService == Service!SSpec

=============================================================================
