---------------------------- MODULE NoteCustody -----------------------------
(***************************************************************************)
(* What the wallet promises about private notes, without commands, files or*)
(* a tree: every note that holds money on chain, or that a transaction in  *)
(* flight is about to create, is known to the wallet; a note enters with an*)
(* index that was never used, and is put in flight once; it leaves while it*)
(* holds no money and is not about to.                                     *)
(***************************************************************************)
VARIABLES
    known,       \* notes the wallet can spend: they are in its file
    used,        \* indexes that were ever handed out
    inflight,    \* notes that a pending transaction would create
    launched,    \* notes that were ever put in flight
    held         \* notes that are unspent on chain

custodyVars == <<known, used, inflight, launched, held>>

CustodyInit ==
    /\ known = {}
    /\ used = {}
    /\ inflight = {}
    /\ launched = {}
    /\ held = {}

(* A note is written down under a fresh index; indexes may be skipped.      *)
Remember ==
    /\ \E n \in known' :
          /\ n.index \notin used
          /\ known' = known \cup {n}
          /\ n.index \in used'
    /\ used \subseteq used'
    /\ UNCHANGED <<inflight, launched, held>>

(* Only notes that are written down are put in flight, and only once.       *)
Launch ==
    /\ \E new \in SUBSET (known \ launched) :
          /\ inflight' = inflight \cup new
          /\ launched' = launched \cup new
    /\ UNCHANGED <<known, used, held>>

(* A transaction is mined: held notes are consumed, a note in flight lands. *)
Land ==
    /\ held' \ held \subseteq inflight
    /\ inflight' = inflight \ (held' \ held)
    /\ UNCHANGED <<known, used, launched>>

(* A transaction will never be mined.                                       *)
Lose ==
    /\ inflight' \subseteq inflight
    /\ UNCHANGED <<known, used, launched, held>>

(* Only notes neither held nor in flight are forgotten, or come back after  *)
(* they were; indexes may be skipped.                                       *)
Sift ==
    /\ ((known \ known') \cup (known' \ known)) \cap (held \cup inflight) = {}
    /\ known' \ known \subseteq launched
    /\ used \subseteq used'
    /\ UNCHANGED <<inflight, launched, held>>

CustodyNext == Remember \/ Launch \/ Land \/ Lose \/ Sift

CustodySpec == CustodyInit /\ [][CustodyNext]_custodyVars
=============================================================================
