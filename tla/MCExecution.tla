---------------------------- MODULE MCExecution -----------------------------
(***************************************************************************)
(* Instances of Execution for TLC.                                         *)
(***************************************************************************)
EXTENDS ExecutionInvariant, TLC

CONSTANTS r, m, b        \* a one-click, a mail and a browser candidate

MixedMethod   == (r :> "rfc8058") @@ (m :> "mailto")
BrowserMethod == (b :> "browser")
AllMethod     == (r :> "rfc8058") @@ (m :> "mailto") @@ (b :> "browser")
RfcMethod     == (r :> "rfc8058")
MailMethod    == (m :> "mailto")
RfcBrowserMethod == (r :> "rfc8058") @@ (b :> "browser")
MailBrowserMethod == (m :> "mailto") @@ (b :> "browser")

(* The tasks, and the ids of fresh plans, are interchangeable.             *)
Symmetry == Permutations(Task) \cup Permutations(Plan)

=============================================================================
