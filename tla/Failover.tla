------------------------------ MODULE Failover ------------------------------
(***************************************************************************)
(* What handle() promises whoever sends a request, without pools, clocks,  *)
(* strategies and budgets: the request is taken to one group of backends   *)
(* and asked of its members one at a time, of none of them twice and of no *)
(* more than MaxTries; the first answer is the verdict, and a verdict      *)
(* without one says of how many the request was asked.                     *)
(***************************************************************************)
EXTENDS Naturals, FiniteSets

CONSTANTS
    Groups,     \* the sets of backends a request may be taken to
    MaxTries

VARIABLES
    group,      \* that of the open request, empty if there is none
    asked,      \* the backend that is asked, as a set
    failed,     \* those that failed the request
    open, verdict

failoverVars == <<group, asked, failed, open, verdict>>

Verdict(kind, attempts) == [kind |-> kind, attempts |-> attempts]

FailoverInit ==
    /\ group = {} /\ asked = {} /\ failed = {}
    /\ open = FALSE /\ verdict = Verdict("none", 0)

Take ==
    /\ ~open
    /\ open' = TRUE
    /\ group' \in Groups
    /\ verdict' = Verdict("none", 0)
    /\ UNCHANGED <<asked, failed>>

TurnAway ==
    /\ ~open
    /\ verdict' = Verdict("NoRoute", 0)
    /\ UNCHANGED <<group, asked, failed, open>>

Ask ==
    /\ open /\ asked = {}
    /\ Cardinality(failed) < MaxTries
    /\ \E b \in group \ failed : asked' = {b}
    /\ UNCHANGED <<group, failed, open, verdict>>

GoOn ==
    /\ asked # {}
    /\ failed' = failed \cup asked /\ asked' = {}
    /\ UNCHANGED <<group, open, verdict>>

Close(kind) ==
    /\ open
    /\ open' = FALSE
    /\ verdict' = Verdict(kind, Cardinality(failed \cup asked))
    /\ group' = {} /\ asked' = {} /\ failed' = {}

Answer == asked # {} /\ Close("Ok")

GiveUp ==
    \/ failed \cup asked = {} /\ Close("NoHealthyUpstream")
    \/ failed \cup asked # {} /\ Close("AllAttemptsFailed")

FailoverNext == Take \/ TurnAway \/ Ask \/ GoOn \/ Answer \/ GiveUp

FailoverSpec == FailoverInit /\ [][FailoverNext]_failoverVars
=============================================================================
