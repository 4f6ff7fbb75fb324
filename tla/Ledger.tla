------------------------------- MODULE Ledger -------------------------------
(***************************************************************************)
(* What both tracks of the registry promise of challenges and runs,        *)
(* whatever stores them: a run is credited against a challenge that was    *)
(* opened, inside that challenge's window, at most once, under an id of    *)
(* its own; and nothing leaves the ledger while its storage is intact.     *)
(* AiStore (an event log) and Registry (the kernel and its checkpoints)    *)
(* are each shown to implement it.                                         *)
(***************************************************************************)
EXTENDS Integers

CONSTANT LedgerWindow   \* how long after its mint a challenge can be credited

VARIABLES
  opened,    \* challenges handed out: [nonce, issued]
  credited,  \* runs: [id, nonce, issued, submitted]
  intact     \* no write was cut and no checkpoint rolled back

ledgerVars == <<opened, credited, intact>>

LedgerInit ==
  /\ opened = {}
  /\ credited = {}
  /\ intact = TRUE

\* Storage that failed once stays suspect; until then the ledger only grows.
Keeps ==
  intact' => /\ intact
             /\ opened \subseteq opened'
             /\ credited \subseteq credited'

\* r may join the ledger.
Eligible(r) ==
  /\ [nonce |-> r.nonce, issued |-> r.issued] \in opened
  /\ r.submitted <= r.issued + LedgerWindow
  /\ \A s \in credited' \ {r} : s.nonce # r.nonce /\ s.id # r.id

LedgerNext ==
  /\ Keeps
  /\ \A r \in credited' \ credited : Eligible(r)
  /\ \A r, s \in credited' \ credited : r = s

LedgerSpec == LedgerInit /\ [][LedgerNext]_ledgerVars
=============================================================================
