------------------------- MODULE FwProcMailboxProofs -------------------------
(***************************************************************************)
(* Proofs about the cold-boot mailbox command loop (FwProcMailbox), for    *)
(* every value of its constants that MailboxAssumption allows: the loop    *)
(* keeps every variable in its type, and while the ROM is still running    *)
(* PCR31 and the measurement log record the same stashed measurements.     *)
(***************************************************************************)
EXTENDS FwProcMailbox, TLAPS

\* The request the ROM starts with is a request the SoC could have sent.
LEMMA RequestsNonEmpty == Requests # {}
<1>1. PICK c \in SocCommands : TRUE
  BY MailboxAssumption
<1>2. DefaultMeasurement \in Measurements
  BY MailboxAssumption DEF DefaultMeasurement
<1>3. [cmd |-> c, reserved_pauser |-> FALSE, chk |-> "Ok",
       dlen |-> "InRange", measurement |-> DefaultMeasurement] \in Requests
  BY <1>1, <1>2 DEF Requests
<1>4. QED
  BY <1>3

\* The cold-boot state of the loop has the type TypeOK describes.
LEMMA InitTypeOK == Init => TypeOK
<1> SUFFICES ASSUME Init PROVE TypeOK
  OBVIOUS
<1>1. req \in Requests
  BY RequestsNonEmpty DEF Init
<1>2. pcr31 \in Seq(Measurements)
  BY DEF Init
<1>3. meas_log \in [0..(MeasLogEntries - 1) -> {EmptyEntry} \cup [measurement : Measurements]]
  BY DEF Init
<1>4. meas_log_index \in 0..MEASUREMENT_MAX_COUNT
  BY MailboxAssumption DEF Init
<1>5. QED
  BY <1>1, <1>2, <1>3, <1>4 DEF Init, TypeOK, NoError, MboxStates, Errors

\* Every step of the SoC, of a command handler or of the fatal handler
\* keeps the variables in their types: in particular the stash counter
\* never passes MEASUREMENT_MAX_COUNT (the limit check of
\* STASH_MEASUREMENT runs before the counter is incremented).
LEMMA NextTypeOK == TypeOK /\ [Next]_vars => TypeOK'
<1> SUFFICES ASSUME TypeOK, [Next]_vars PROVE TypeOK'
  OBVIOUS
<1> USE MailboxAssumption DEF TypeOK, MboxStates, Errors
<1>1. ASSUME NEW r \in Requests, SocSend(r) PROVE TypeOK'
  BY <1>1 DEF SocSend
<1>2. CASE SocRelease
  BY <1>2 DEF SocRelease
<1>3. CASE HandleCommand
  <2>1. CASE req.cmd = "STASH_MEASUREMENT" /\ ~req.reserved_pauser
    <3>1. /\ StashMeasurement
          /\ fw_error_non_fatal' = NoError
          /\ UNCHANGED <<req, fw_error_fatal>>
      BY <1>3, <2>1 DEF HandleCommand
    <3>2. CASE meas_log_index = MEASUREMENT_MAX_COUNT
      BY <3>1, <3>2 DEF StashMeasurement, ReturnError, CopyReqError, NoError
    <3>3. CASE meas_log_index # MEASUREMENT_MAX_COUNT /\ req.chk # "Ok"
      BY <3>1, <3>3 DEF StashMeasurement, ReturnError, CopyReqError, NoError
    <3>4. CASE meas_log_index # MEASUREMENT_MAX_COUNT /\ req.chk = "Ok"
      <4>1. req.measurement \in Measurements
        BY DEF Requests
      <4>2. pcr31' \in Seq(Measurements)
        BY <3>1, <3>4, <4>1 DEF StashMeasurement, ReturnError
      <4>3. CASE meas_log_index \in DOMAIN meas_log
        BY <3>1, <3>4, <4>1, <4>2, <4>3 DEF StashMeasurement, ReturnError, CopyReqError, NoError
      <4>4. CASE meas_log_index \notin DOMAIN meas_log
        BY <3>1, <3>4, <4>2, <4>4 DEF StashMeasurement, ReturnError, CopyReqError, NoError
      <4>5. QED
        BY <4>3, <4>4
    <3>5. QED
      BY <3>2, <3>3, <3>4
  <2>2. CASE ~(req.cmd = "STASH_MEASUREMENT" /\ ~req.reserved_pauser)
    BY <1>3, <2>2 DEF HandleCommand, ReturnError, CopyReqError, NoError
  <2>3. QED
    BY <2>1, <2>2
<1>4. CASE FatalHandler
  BY <1>4 DEF FatalHandler
<1>5. CASE UNCHANGED vars
  BY <1>5 DEF vars
<1>6. QED
  BY <1>1, <1>2, <1>3, <1>4, <1>5 DEF Next

\* The mailbox loop never leaves its types (TypeOK of the runs, for every
\* value of the constants).
THEOREM TypeCorrect == Spec => []TypeOK
BY InitTypeOK, NextTypeOK, PTL DEF Spec

-----------------------------------------------------------------------------
(* PCR31 and the measurement log.                                          *)

\* The strengthening of MeasurementLogMatchesPcr31 that is inductive: the
\* stash counter never passes the end of the log, because log_measurement
\* increments it only after writing an entry that exists.
LogInv ==
    /\ meas_log_index <= MeasLogEntries
    /\ MeasurementLogMatchesPcr31

IInv == TypeOK /\ LogInv

\* Appending the next stashed measurement to PCR31 and writing it to the
\* next log entry keeps the two in step.
LEMMA StashKeepsLogMatch ==
  ASSUME NEW L \in Nat, NEW R, NEW log \in [0..(L - 1) -> R],
         NEW n \in 0..(L - 1), NEW x,
         NEW S, NEW pcr \in Seq(S), pcr = [i \in 1..n |-> log[i - 1].measurement]
  PROVE  Append(pcr, x) =
           [i \in 1..(n + 1) |-> [log EXCEPT ![n] = [measurement |-> x]][i - 1].measurement]
<1> DEFINE log2 == [log EXCEPT ![n] = [measurement |-> x]]
<1>1. DOMAIN pcr = 1..n /\ n \in Nat
  OBVIOUS
<1>6. Len(pcr) = n
  BY <1>1
<1>2. Append(pcr, x) = [i \in 1..(n + 1) |-> IF i <= n THEN pcr[i] ELSE x]
  BY <1>6
<1>3. \A i \in 1..(n + 1) : (IF i <= n THEN pcr[i] ELSE x) = log2[i - 1].measurement
  <2> TAKE i \in 1..(n + 1)
  <2>1. CASE i <= n
    BY <2>1
  <2>2. CASE ~(i <= n)
    BY <2>2
  <2>3. QED
    BY <2>1, <2>2
<1>4. QED
  BY <1>2, <1>3

\* The cold-boot state satisfies the invariant: PCR31 and the log are empty.
LEMMA InitIInv == Init => IInv
BY InitTypeOK, MailboxAssumption DEF Init, IInv, LogInv, MeasurementLogMatchesPcr31

\* Every step keeps the invariant.
LEMMA NextIInv == IInv /\ [Next]_vars => IInv'
<1> SUFFICES ASSUME IInv, [Next]_vars PROVE IInv'
  OBVIOUS
<1>1. TypeOK'
  BY NextTypeOK DEF IInv
<1> SUFFICES LogInv'
  BY <1>1 DEF IInv
<1> USE MailboxAssumption DEF IInv, LogInv, MeasurementLogMatchesPcr31
<1>2. ASSUME NEW r \in Requests, SocSend(r) PROVE LogInv'
  BY <1>2 DEF SocSend
<1>3. CASE SocRelease
  BY <1>3 DEF SocRelease
<1>4. CASE HandleCommand
  <2>1. CASE req.cmd = "STASH_MEASUREMENT" /\ ~req.reserved_pauser
    <3>1. rom = "Wait" /\ StashMeasurement
      BY <1>4, <2>1 DEF HandleCommand
    \* A stash either fails the command, leaving the counter alone, or
    \* extends PCR31 and writes the entry the counter points at.
    <3>2. \/ rom' = "Error" /\ meas_log_index' = meas_log_index
          \/ /\ meas_log_index \in DOMAIN meas_log
             /\ pcr31' = Append(pcr31, req.measurement)
             /\ meas_log' = [meas_log EXCEPT ![meas_log_index] =
                                 [measurement |-> req.measurement]]
             /\ meas_log_index' = meas_log_index + 1
             /\ rom' = rom
      BY <3>1 DEF StashMeasurement, ReturnError
    <3>3. CASE rom' = "Error" /\ meas_log_index' = meas_log_index
      BY <3>3
    <3>4. CASE /\ meas_log_index \in DOMAIN meas_log
               /\ pcr31' = Append(pcr31, req.measurement)
               /\ meas_log' = [meas_log EXCEPT ![meas_log_index] =
                                   [measurement |-> req.measurement]]
               /\ meas_log_index' = meas_log_index + 1
               /\ rom' = rom
      <4>1. meas_log_index \in 0..(MeasLogEntries - 1)
        BY <3>4 DEF TypeOK
      <4>2. pcr31 = [i \in 1..meas_log_index |-> meas_log[i - 1].measurement]
        BY <3>1
      <4>3. pcr31' = [i \in 1..meas_log_index' |-> meas_log'[i - 1].measurement]
        BY <3>4, <4>1, <4>2, StashKeepsLogMatch DEF TypeOK
      <4>4. meas_log_index' <= MeasLogEntries
        BY <3>4, <4>1
      <4>5. QED
        BY <4>3, <4>4
    <3>5. QED
      BY <3>2, <3>3, <3>4
  <2>2. CASE ~(req.cmd = "STASH_MEASUREMENT" /\ ~req.reserved_pauser)
    <3>1. UNCHANGED <<meas_log_index, meas_log, pcr31>>
      BY <1>4, <2>2 DEF HandleCommand, ReturnError
    <3>2. rom' \in {"Wait", "FwReceived", "Error"} /\ rom = "Wait"
      BY <1>4, <2>2 DEF HandleCommand, ReturnError
    <3>3. QED
      BY <3>1, <3>2
  <2>3. QED
    BY <2>1, <2>2
<1>5. CASE FatalHandler
  BY <1>5 DEF FatalHandler
<1>6. CASE UNCHANGED vars
  BY <1>6 DEF vars
<1>7. QED
  BY <1>2, <1>3, <1>4, <1>5, <1>6 DEF Next

\* While the ROM is still running (waiting for commands, or handing the
\* firmware image on), PCR31 holds exactly the logged measurements in log
\* order: MeasurementLogMatchesPcr31 of the runs, for every limit and log
\* length.
THEOREM LogMatchesPcr31 == Spec => []MeasurementLogMatchesPcr31
<1>1. IInv => MeasurementLogMatchesPcr31
  BY DEF IInv, LogInv
<1>2. QED
  BY InitIInv, NextIInv, <1>1, PTL DEF Spec

-----------------------------------------------------------------------------
(* Refinement of MailboxService.                                           *)

\* What the SoC sees of the loop, as a tuple of MailboxService's variables.
Abs == <<ServiceStatus, ServiceChan, LoggedMeasurements>>

\* The cold-boot state is MailboxService's initial state.
LEMMA InitRefines == Init => Service!SInit
BY DEF Init, Service!SInit, ServiceStatus, ServiceChan, LoggedMeasurements

\* Appending one measurement to the logged ones: the stashed sequence
\* grows by exactly that measurement and was shorter than the limit.
LEMMA StashRefines ==
  ASSUME IInv, rom = "Wait",
         meas_log_index # MEASUREMENT_MAX_COUNT,
         meas_log_index \in DOMAIN meas_log,
         meas_log' = [meas_log EXCEPT ![meas_log_index] = [measurement |-> req.measurement]],
         meas_log_index' = meas_log_index + 1
  PROVE  /\ LoggedMeasurements' = Append(LoggedMeasurements, req.measurement)
         /\ Len(LoggedMeasurements) < MEASUREMENT_MAX_COUNT
         /\ req.measurement \in Measurements
<1> USE MailboxAssumption
<1>1. meas_log_index \in 0..(MeasLogEntries - 1) /\ meas_log_index \in 0..MEASUREMENT_MAX_COUNT
  BY DEF IInv, TypeOK
<1>2. LoggedMeasurements = pcr31 /\ pcr31 \in Seq(Measurements)
  BY DEF IInv, LogInv, MeasurementLogMatchesPcr31, LoggedMeasurements, TypeOK
<1>3. LoggedMeasurements' = Append(LoggedMeasurements, req.measurement)
  BY <1>1, <1>2, StashKeepsLogMatch DEF IInv, TypeOK, LoggedMeasurements
<1>4. Len(LoggedMeasurements) = meas_log_index
  BY <1>1 DEF LoggedMeasurements
<1>5. req.measurement \in Measurements
  BY DEF IInv, TypeOK, Requests
<1>6. QED
  BY <1>1, <1>3, <1>4, <1>5

\* Every step of the loop, of the SoC and of the fatal handler is a step of
\* MailboxService under the mapping, or leaves the mapped state unchanged.
LEMMA NextRefines == IInv /\ [Next]_vars => [Service!SNext]_Abs
<1> SUFFICES ASSUME IInv, [Next]_vars PROVE [Service!SNext]_Abs
  OBVIOUS
<1> DEFINE Same == UNCHANGED <<meas_log, meas_log_index>>
<1>0. Same => LoggedMeasurements' = LoggedMeasurements
  BY DEF LoggedMeasurements
<1>1. ASSUME NEW r \in Requests, SocSend(r) PROVE [Service!SNext]_Abs
  <2>1. Service!Send
    BY <1>0, <1>1 DEF SocSend, Service!Send, ServiceStatus, ServiceChan
  <2>2. QED
    BY <2>1 DEF Service!SNext
<1>2. CASE SocRelease
  <2>1. Service!Release
    BY <1>0, <1>2 DEF SocRelease, Service!Release, ServiceStatus, ServiceChan
  <2>2. QED
    BY <2>1 DEF Service!SNext
<1>3. CASE HandleCommand
  <2> rom = "Wait" /\ mbox = "Execute"
    BY <1>3 DEF HandleCommand
  \* The handler fails the command, answers it, or hands it on, leaving
  \* the log alone; or it stashes the request's measurement.
  <2>1. \/ rom' = "Error" /\ mbox' \in {"Execute", "CmdFailure", "DataReady"} /\ Same
        \/ rom' = "Wait" /\ mbox' \in {"DataReady", "CmdFailure"} /\ Same
        \/ rom' = "FwReceived" /\ mbox' = mbox /\ Same
        \/ /\ rom' = "Wait" /\ mbox' = "DataReady"
           /\ meas_log_index # MEASUREMENT_MAX_COUNT
           /\ meas_log_index \in DOMAIN meas_log
           /\ meas_log' = [meas_log EXCEPT ![meas_log_index] = [measurement |-> req.measurement]]
           /\ meas_log_index' = meas_log_index + 1
    <3>1. CASE req.cmd = "STASH_MEASUREMENT" /\ ~req.reserved_pauser
      BY <1>3, <3>1 DEF HandleCommand, StashMeasurement, ReturnError
    <3>2. CASE ~(req.cmd = "STASH_MEASUREMENT" /\ ~req.reserved_pauser)
      BY <1>3, <3>2 DEF HandleCommand, ReturnError
    <3>3. QED
      BY <3>1, <3>2
  <2>2. CASE rom' = "Error" /\ mbox' \in {"Execute", "CmdFailure", "DataReady"} /\ Same
    <3>1. Service!Fail
      BY <1>0, <2>2 DEF Service!Fail, ServiceStatus, ServiceChan
    <3>2. QED
      BY <3>1 DEF Service!SNext, Service!Respond
  <2>3. CASE rom' = "Wait" /\ mbox' \in {"DataReady", "CmdFailure"} /\ Same
    <3>1. Service!Answer
      BY <1>0, <2>3 DEF Service!Answer, ServiceStatus, ServiceChan
    <3>2. QED
      BY <3>1 DEF Service!SNext, Service!Respond
  <2>4. CASE rom' = "FwReceived" /\ mbox' = mbox /\ Same
    <3>1. Service!Handoff
      BY <1>0, <2>4 DEF Service!Handoff, ServiceStatus, ServiceChan
    <3>2. QED
      BY <3>1 DEF Service!SNext, Service!Respond
  <2>5. CASE /\ rom' = "Wait" /\ mbox' = "DataReady"
             /\ meas_log_index # MEASUREMENT_MAX_COUNT
             /\ meas_log_index \in DOMAIN meas_log
             /\ meas_log' = [meas_log EXCEPT ![meas_log_index] = [measurement |-> req.measurement]]
             /\ meas_log_index' = meas_log_index + 1
    <3>1. /\ LoggedMeasurements' = Append(LoggedMeasurements, req.measurement)
          /\ Len(LoggedMeasurements) < MEASUREMENT_MAX_COUNT
          /\ req.measurement \in Measurements
      BY <2>5, StashRefines
    <3>2. Service!Stash(req.measurement)
      BY <2>5, <3>1 DEF Service!Stash, ServiceStatus, ServiceChan
    <3>3. QED
      BY <3>1, <3>2 DEF Service!SNext, Service!Respond
  <2>6. QED
    BY <2>1, <2>2, <2>3, <2>4, <2>5
<1>4. CASE FatalHandler
  <2>1. CASE mbox = "Execute"
    <3>1. Service!Abort
      BY <1>0, <1>4, <2>1 DEF FatalHandler, Service!Abort, ServiceStatus, ServiceChan
    <3>2. QED
      BY <3>1 DEF Service!SNext, Service!Respond
  <2>2. CASE mbox # "Execute"
    BY <1>0, <1>4, <2>2 DEF FatalHandler, Abs, ServiceStatus, ServiceChan
  <2>3. QED
    BY <2>1, <2>2
<1>5. CASE UNCHANGED vars
  BY <1>0, <1>5 DEF vars, Abs, ServiceStatus, ServiceChan
<1>6. QED
  BY <1>1, <1>2, <1>3, <1>4, <1>5 DEF Next

\* The mailbox loop implements what it promises the SoC (the safety part
\* of ImplementsMailboxService, which the runs check with its fairness):
\* one request in flight at a time, each answered, stashed, handed on or
\* failed, and the log grows only by the stashed measurement, within
\* MEASUREMENT_MAX_COUNT, and never after a failure.
THEOREM ImplementsService == Spec => Service!SafeSpec
<1>1. Init => Service!SInit
  BY InitRefines
<1>2. IInv /\ [Next]_vars => [Service!SNext]_Abs
  BY NextRefines
<1>3. QED
  BY <1>1, <1>2, InitIInv, NextIInv, PTL DEF Spec, Service!SafeSpec, Abs, Service!svars

=============================================================================
