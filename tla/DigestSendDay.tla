---------------------------- MODULE DigestSendDay ----------------------------
(***************************************************************************)
(* DigestSend implements DigestDay: the mail is what the provider accepted *)
(* and the verdict is read off the row.                                    *)
(***************************************************************************)
EXTENDS DigestSend

VerdictOf(s) ==
    CASE s.state \in {"SENT", "PARTIALLY_SENT"} -> "sent"
      [] s.state = "SKIPPED" -> "skipped"
      [] OTHER -> "open"

Mailed == {prov[c].aud : c \in {d \in Campaigns : Accepted(d)}}
Settled == [a \in Audiences |-> VerdictOf(row[a])]

Day == INSTANCE DigestDay WITH mailed <- Mailed, verdict <- Settled

\* The state machine keeps the day's promise: mailed at most once, one verdict per
\* version, never "skipped" over something mailed.
DayKept == Day!Spec

\* The same, step by step, for a behaviour that is already known to begin well.
DayStep == [Day!Next]_<<Mailed, Settled>>
=============================================================================
