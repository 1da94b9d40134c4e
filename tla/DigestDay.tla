------------------------------ MODULE DigestDay ------------------------------
(***************************************************************************)
(* What the digest promises for one day, with no claim, marker, retry or   *)
(* provider call in sight: each version is put in the mail at most once,   *)
(* gets one verdict, and the verdict tells the truth about the mail as far *)
(* as the next day needs it: "sent" only if it was mailed, "skipped" only  *)
(* if it never will be (its stories roll forward to the next digest).      *)
(***************************************************************************)
CONSTANTS Audiences

VARIABLES mailed,   \* versions a campaign of which the provider accepted
          verdict   \* what the day's record says of each version, once it is settled

Verdicts == {"open", "sent", "skipped"}

Init ==
    /\ mailed = {}
    /\ verdict = [a \in Audiences |-> "open"]

\* The provider accepts the version's campaign.
Mail(a) ==
    /\ a \notin mailed /\ verdict[a] = "open"
    /\ mailed' = mailed \cup {a}
    /\ UNCHANGED verdict

Decide(a, v) ==
    /\ verdict[a] = "open"
    /\ v = "sent" => a \in mailed
    /\ v = "skipped" => a \notin mailed
    /\ verdict' = [verdict EXCEPT ![a] = v]
    /\ UNCHANGED mailed

Next == \E a \in Audiences :
            Mail(a) \/ \E v \in Verdicts \ {"open"} : Decide(a, v)

Spec == Init /\ [][Next]_<<mailed, verdict>>
=============================================================================
