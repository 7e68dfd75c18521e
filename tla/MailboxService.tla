---------------------------- MODULE MailboxService ----------------------------
(***************************************************************************)
(* What the ROM's cold-boot mailbox loop promises the SoC, with no         *)
(* commands, handlers or error codes: one request at a time is in flight;  *)
(* the ROM answers it, or stashes a measurement and answers it, or hands   *)
(* it on as the firmware image, or stops serving (a fatal error) and then  *)
(* fails a request still in flight.  The stashed measurements only grow,   *)
(* one per answered request while serving, and never beyond MaxStash.      *)
(* FwProcMailbox implements it (see ServiceMapping there).                 *)
(***************************************************************************)
EXTENDS Naturals, Sequences

CONSTANTS
    MaxStash,       \* how many measurements the ROM accepts
    Measurements    \* the measurements the SoC may stash

VARIABLES
    status,         \* "Serving", "Failed" or "Handed" (firmware received)
    chan,           \* the mailbox: "Idle", "Busy" (request in flight), "Answered"
    stashed         \* the sequence of stashed measurements

svars == <<status, chan, stashed>>

SInit ==
    /\ status = "Serving"
    /\ chan = "Idle"
    /\ stashed = << >>

\* The SoC places a request while the ROM serves and the mailbox is free.
Send ==
    /\ status = "Serving" /\ chan = "Idle"
    /\ chan' = "Busy"
    /\ UNCHANGED <<status, stashed>>

\* The ROM answers the request in flight.
Answer ==
    /\ status = "Serving" /\ chan = "Busy"
    /\ chan' = "Answered"
    /\ UNCHANGED <<status, stashed>>

\* The ROM stashes measurement m for the request in flight and answers it.
Stash(m) ==
    /\ status = "Serving" /\ chan = "Busy"
    /\ Len(stashed) < MaxStash
    /\ stashed' = Append(stashed, m)
    /\ chan' = "Answered"
    /\ UNCHANGED status

\* The request in flight is the firmware image: the loop ends with it.
Handoff ==
    /\ status = "Serving" /\ chan = "Busy"
    /\ status' = "Handed"
    /\ UNCHANGED <<chan, stashed>>

\* Handling the request in flight, the ROM stops serving; it may fail the
\* request as it does.
Fail ==
    /\ status = "Serving" /\ chan = "Busy"
    /\ status' = "Failed"
    /\ chan' \in {"Busy", "Answered"}
    /\ UNCHANGED stashed

\* After it stopped, the ROM fails the request still in flight.
Abort ==
    /\ status = "Failed" /\ chan = "Busy"
    /\ chan' = "Answered"
    /\ UNCHANGED <<status, stashed>>

\* The SoC takes the answer and frees the mailbox.
Release ==
    /\ chan = "Answered"
    /\ chan' = "Idle"
    /\ UNCHANGED <<status, stashed>>

\* What the ROM does with a request in flight.
Respond ==
    \/ Answer
    \/ \E m \in Measurements : Stash(m)
    \/ Handoff
    \/ Fail
    \/ Abort

SNext == Send \/ Respond \/ Release

\* Without fairness: what may happen.
SafeSpec == SInit /\ [][SNext]_svars

\* A request in flight is never left unanswered while the ROM can respond
\* (Respond is enabled exactly while a request is in flight and the ROM has
\* not handed it on).
SSpec == SafeSpec /\ WF_svars(Respond)

=============================================================================
