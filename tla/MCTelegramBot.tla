---------------------------- MODULE MCTelegramBot -----------------------------
(***************************************************************************)
(* TelegramBot for TLC.                                                    *)
(***************************************************************************)
EXTENDS TelegramBot

\* The first message reads, decides, escalates, asks for help, is empty or
\* raises; the second asks for a new lot.
SomeAsks == <<{"read", "approve", "escalate", "text", "none", "broken"}, {"new"}>>
=============================================================================
