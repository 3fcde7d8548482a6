------------------------------- MODULE MCBot -------------------------------
(* Instance of BotTransport for TLC. Three faults reach a stalled status     *)
(* phase whose recovery meets two more, which is enough to use up the trials *)
(* of msc_wait_for_ready_state; eight tags keep what a few abandoned         *)
(* commands leave behind apart from the command under way. The task issues   *)
(* commands and, where Recovers says so, calls the recovery between them.    *)
EXTENDS BotTransport

MCDataStall == {"data_stall"}
=============================================================================
