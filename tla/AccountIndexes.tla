--------------------------- MODULE AccountIndexes ---------------------------
(***************************************************************************)
(* The indexes of public addresses and smart accounts: which of them the   *)
(* wallet hands out (next_fresh, pick_to, unshield --next), which ones it   *)
(* shows (load_eoas, load_smart), and which ones an import finds again     *)
(* (scan_imported).  One command runs at a time; a payment it sent lands   *)
(* whenever the chain likes, also after the command gave up.               *)
(***************************************************************************)
EXTENDS Naturals, FiniteSets

CONSTANTS
    MaxIndex,      \* bound: indexes below it are used
    Batch,         \* SCAN_BATCH
    Lookahead,     \* load_smart: indexes tried beyond the highest stored one
    MaxSends,      \* bound: payments sent
    MaxImports     \* bound: imports

ASSUME IndexAssumption ==
    /\ MaxIndex \in Nat \ {0} /\ Batch \in Nat \ {0} /\ Lookahead \in Nat
    /\ MaxSends \in Nat /\ MaxImports \in Nat

VARIABLES
    file,      \* next_public, public_indexes and smart_indexes of wallet.json
    run,       \* the command that runs
    flight,    \* payments that may still land
    used,      \* public addresses with a nonce or a balance
    funded,    \* smart accounts with a balance
    deployed,  \* smart accounts with code
    handed,    \* history: accounts handed out as fresh
    own,       \* history: accounts paid through --next or with a tail
    sends, imports

chainVars == <<used, funded, deployed>>
vars == <<file, run, flight, used, funded, deployed, handed, own, sends, imports>>

-----------------------------------------------------------------------------
Index == 0..(MaxIndex - 1)
Secrets == [next_public : Nat, public_indexes : SUBSET Index, smart_indexes : SUBSET Index]

(* A payment goes to a public address, to a smart account, or to a smart    *)
(* account with a tail that deploys it.                                     *)
Account == [kind : {"eoa", "smart"}, index : Index]
Payment == [kind : {"eoa", "smart", "tail"}, index : Index]
AccountOf(pay) ==
    [kind |-> IF pay.kind = "eoa" THEN "eoa" ELSE "smart", index |-> pay.index]

(* create_wallet without an import.                                         *)
FreshSecrets == [next_public |-> 1, public_indexes |-> {0}, smart_indexes |-> {}]

HighestFrom(S, default) ==
    IF S = {} THEN default ELSE CHOOSE i \in S : \A j \in S : j <= i

(* The next public index is given out; a faulty form, only the list grows.  *)
PushOnly(s, i) == [s EXCEPT !.public_indexes = @ \cup {i}]
Push(s, i) == [s EXCEPT !.public_indexes = @ \cup {i},
                        !.next_public = IF @ <= i THEN i + 1 ELSE @]

(* unshield writes down the account of its tail.                            *)
RememberSmart(s, j) == [s EXCEPT !.smart_indexes = @ \cup {j}]

(* load_smart: indexes are visited one after the other.  It stops beyond the*)
(* lookahead, or at the first index past the stored ones that is neither    *)
(* stored nor deployed.                                                     *)
StopsAtGap(seen, dep, j) == j \notin seen \cup dep   \* faulty
Stops(seen, dep, j) ==
    /\ j \notin seen
    /\ \/ j > HighestFrom(seen, 0) + Lookahead
       \/ j \notin dep /\ j > HighestFrom(seen, 0)

Loaded(seen, dep) ==
    {j \in seen \cup dep : \A i \in 0..j : ~Stops(seen, dep, i)}

(* What balances and pick_from show.                                        *)
Listed(s, dep) ==
    {[kind |-> "eoa", index |-> i] : i \in s.public_indexes} \cup
    {[kind |-> "smart", index |-> j] : j \in Loaded(s.smart_indexes, dep)}

(* address_was_used, for all accounts.                                      *)
Accounts ==
    {[kind |-> "eoa", index |-> i] : i \in used} \cup
    {[kind |-> "smart", index |-> j] : j \in deployed \cup funded}

(* scan_index_batches, one batch: what was found up to now, and whether the *)
(* next batch is looked at.                                                 *)
BatchFrom(start) == {i \in Index : i >= start /\ i < start + Batch}
InBatch(start, there) == there \cap BatchFrom(start)

-----------------------------------------------------------------------------
(* The command: `mem` is its copy of the secrets, `pick` the payment it has *)
(* chosen, `fresh` whether it took the next public index for it, `at` the   *)
(* index it looks at, `last` the highest used index of the scan, plus one,  *)
(* `knew` (history) the accounts that were used when the import began.      *)
Places == {"off", "probe", "confirm", "send", "public", "smart"}
Run == [pc : Places, mem : Secrets, pick : Payment, fresh : BOOLEAN,
        at : Nat, last : 0..MaxIndex, knew : SUBSET Account]

Nobody == [kind |-> "eoa", index |-> 0]
Idle == [pc |-> "off", mem |-> FreshSecrets, pick |-> Nobody, fresh |-> FALSE,
         at |-> 0, last |-> 0, knew |-> {}]

At(pc) == run.pc = pc
Goto(pc) == run' = [run EXCEPT !.pc = pc]
Stop == run' = Idle

(* The history is that of the wallet made here: it ends with an import.     *)
Record(hist, a) == IF imports = 0 THEN hist \cup {a} ELSE hist

Fail ==
    /\ ~At("off")
    /\ Stop
    /\ UNCHANGED <<file, flight, chainVars, handed, own, sends, imports>>

(* next_fresh without --peek.                                               *)
NextFresh ==
    /\ At("off")
    /\ file.next_public < MaxIndex
    /\ file' = Push(file, file.next_public)
    /\ handed' = Record(handed, [kind |-> "eoa", index |-> file.next_public])
    /\ UNCHANGED <<run, flight, chainVars, own, sends, imports>>

(* transfer or unshield to an address the user names: any account of the    *)
(* wallet.  Nothing is stored for it.  A plain unshield to a smart account  *)
(* needs code there; a transfer does not.                                   *)
PayNamed(kind, i) ==
    /\ At("off")
    /\ run' = [Idle EXCEPT !.mem = file, !.pick = [kind |-> kind, index |-> i],
                           !.pc = "send"]
    /\ UNCHANGED <<file, flight, chainVars, handed, own, sends, imports>>

(* pick_to, next fresh address: the index is stored before the user is asked*)
(* to confirm.                                                              *)
PickFresh ==
    /\ At("off")
    /\ file.next_public < MaxIndex
    /\ LET i == file.next_public
           s == Push(file, i)
       IN  /\ file' = s
           /\ handed' = Record(handed, [kind |-> "eoa", index |-> i])
           /\ run' = [Idle EXCEPT !.mem = s, !.pick = [kind |-> "eoa", index |-> i],
                                  !.pc = "send", !.fresh = TRUE]
    /\ UNCHANGED <<flight, chainVars, own, sends, imports>>

(* unshield --next: the index is looked up, and stored after confirmation.  *)
UnshieldNext ==
    /\ At("off")
    /\ file.next_public < MaxIndex
    /\ run' = [Idle EXCEPT !.mem = file, !.fresh = TRUE, !.pc = "confirm",
                           !.pick = [kind |-> "eoa", index |-> file.next_public]]
    /\ UNCHANGED <<file, flight, chainVars, handed, own, sends, imports>>

(* unshield --tail-calls --to aN, and with --next the first step of         *)
(* next_free_smart.                                                         *)
TailNamed(j) ==
    /\ At("off")
    /\ run' = [Idle EXCEPT !.mem = file, !.pc = "confirm",
                           !.pick = [kind |-> "tail", index |-> j]]
    /\ UNCHANGED <<file, flight, chainVars, handed, own, sends, imports>>
TailNext ==
    /\ At("off")
    /\ run' = [Idle EXCEPT !.mem = file, !.pc = "probe"]
    /\ UNCHANGED <<file, flight, chainVars, handed, own, sends, imports>>

(* next_free_smart: the first index without code, whatever smart_indexes is.*)
Probe ==
    /\ At("probe")
    /\ run.at < MaxIndex
    /\ run' = IF run.at \in deployed THEN [run EXCEPT !.at = @ + 1]
              ELSE [run EXCEPT !.pick = [kind |-> "tail", index |-> run.at],
                               !.at = 0, !.fresh = TRUE, !.pc = "confirm"]
    /\ UNCHANGED <<file, flight, chainVars, handed, own, sends, imports>>

(* The user has confirmed: the index is stored before anything is sent.     *)
Confirm ==
    LET i == run.pick.index
        s == IF run.pick.kind = "tail" THEN RememberSmart(run.mem, i) ELSE Push(run.mem, i)
    IN  /\ At("confirm")
        /\ file' = s
        /\ handed' = IF run.fresh THEN Record(handed, AccountOf(run.pick)) ELSE handed
        /\ run' = [run EXCEPT !.mem = s, !.pc = "send"]
        /\ UNCHANGED <<flight, chainVars, own, sends, imports>>

(* send_and_wait; the outcome of the wait changes nothing here.             *)
Send ==
    /\ At("send")
    /\ sends < MaxSends
    /\ flight' = flight \cup {run.pick}
    /\ own' = IF run.fresh \/ run.pick.kind = "tail"
              THEN Record(own, AccountOf(run.pick)) ELSE own
    /\ sends' = sends + 1
    /\ Stop
    /\ UNCHANGED <<file, chainVars, handed, imports>>

-----------------------------------------------------------------------------
(* create-wallet --import: public addresses are scanned, then smart ones;   *)
(* each batch is looked at as the chain is then.                            *)
Import ==
    /\ At("off")
    /\ imports < MaxImports
    /\ imports' = imports + 1
    /\ run' = [Idle EXCEPT !.pc = "public", !.knew = Accounts]
    /\ handed' = {} /\ own' = {}
    /\ UNCHANGED <<file, flight, chainVars, sends>>

NextBatchLate(start) == start + Batch + 1   \* faulty: an index is left out
NextBatch(start) == start + Batch

ScanPublic ==
    LET found == InBatch(run.at, used)
        last == HighestFrom({i + 1 : i \in found}, run.last)
    IN  /\ At("public")
        /\ run' = IF found # {}
                  THEN [run EXCEPT !.last = last, !.at = NextBatch(@)]
                  ELSE [run EXCEPT !.last = 0, !.at = 0, !.pc = "smart",
                          !.mem = [next_public |-> last, public_indexes |-> {i \in Index : i < last},
                                   smart_indexes |-> {}]]
        /\ UNCHANGED <<file, flight, chainVars, handed, own, sends, imports>>

(* The last batch of the smart accounts ends the import: the file is made.  *)
ScanSmart ==
    LET found == InBatch(run.at, deployed \cup funded)
        last == HighestFrom({i + 1 : i \in found}, run.last)
    IN  /\ At("smart")
        /\ IF found # {}
           THEN /\ run' = [run EXCEPT !.last = last, !.at = NextBatch(@)]
                /\ UNCHANGED file
           ELSE /\ file' = [run.mem EXCEPT !.smart_indexes = {j \in Index : j < last}]
                /\ Stop
        /\ UNCHANGED <<flight, chainVars, handed, own, sends, imports>>

-----------------------------------------------------------------------------
(* The chain.                                                               *)

Land(t) ==
    /\ t \in flight
    /\ flight' = flight \ {t}
    /\ used' = IF t.kind = "eoa" THEN used \cup {t.index} ELSE used
    /\ funded' = IF t.kind # "eoa" THEN funded \cup {t.index} ELSE funded
    /\ deployed' = IF t.kind = "tail" THEN deployed \cup {t.index} ELSE deployed
    /\ UNCHANGED <<file, run, handed, own, sends, imports>>

Drop(t) ==
    /\ t \in flight
    /\ flight' = flight \ {t}
    /\ UNCHANGED <<file, run, chainVars, handed, own, sends, imports>>

(* Someone pays an address that the wallet has shown.                       *)
Receive(i) ==
    /\ i \in file.public_indexes
    /\ used' = used \cup {i}
    /\ UNCHANGED <<file, run, flight, funded, deployed, handed, own, sends, imports>>

Init ==
    /\ file = FreshSecrets
    /\ run = Idle
    /\ flight = {}
    /\ used = {} /\ funded = {} /\ deployed = {}
    /\ handed = {[kind |-> "eoa", index |-> 0]}
    /\ own = {}
    /\ sends = 0 /\ imports = 0

Scan == ScanPublic \/ ScanSmart
Pick ==
    \/ PickFresh \/ UnshieldNext \/ TailNext \/ Probe
    \/ \E i \in Index : TailNamed(i) \/ PayNamed("eoa", i) \/ PayNamed("smart", i)

Next ==
    \/ NextFresh \/ Pick \/ Confirm \/ Send \/ Fail
    \/ Import \/ Scan
    \/ \E t \in flight : Land(t) \/ Drop(t)
    \/ \E i \in Index : Receive(i)

Spec == Init /\ [][Next]_vars

-----------------------------------------------------------------------------
(* Properties.                                                              *)

(* Every variable keeps its shape; a stored public index is below           *)
(* next_public, after failures and an import too, so that next_fresh does   *)
(* not come to an address that is listed already (wallet.rs Secrets).       *)
TypeOK ==
    /\ file \in Secrets
    /\ file.next_public <= MaxIndex
    /\ \A i \in file.public_indexes : i < file.next_public
    /\ run \in Run
    /\ flight \subseteq Payment
    /\ used \subseteq Index /\ funded \subseteq Index /\ deployed \subseteq Index
    /\ handed \subseteq Account
    /\ own \subseteq Account
    /\ sends \in Nat /\ imports \in Nat

(* A public index handed out as fresh was not handed out before, also when  *)
(* commands failed between choosing an index and storing it (next_fresh,    *)
(* pick_to, unshield --next).                                               *)
HandsOut == NextFresh \/ PickFresh \/ (Confirm /\ run.pick.kind = "eoa")
FreshOnce == [][HandsOut /\ imports = 0 => handed' # handed]_vars

(* An account that a command chose itself or deployed with a tail is shown  *)
(* by balances and can be spent from, from the send on, whatever failed and *)
(* whether the payment lands: its index is stored before the send           *)
(* (flow.rs:624), and load_smart gets to it across gaps.                    *)
OwnIsListed == imports = 0 => own \subseteq Listed(file, deployed)

(* An import finds every account that was used when it began and that no    *)
(* wholly unused batch comes before, and gives out none of their indexes    *)
(* again; it stores nothing past the last used index (scan_imported).       *)
Reachable(S, a) ==
    \A start \in {b * Batch : b \in Index} :
        start + Batch <= a.index
            => \E x \in S : x.kind = a.kind /\ x.index \in BatchFrom(start)
ImportFindsUsed ==
    [][ScanSmart /\ run' = Idle =>
          /\ \A a \in run.knew : Reachable(run.knew, a) =>
                 a \in Listed(file', {}) /\ (a.kind = "eoa" => a.index < file'.next_public)
          /\ \A i \in file'.public_indexes : \E u \in used : i <= u]_vars

(* unshield --next takes an account for the tail that no --next took before:*)
(* flow.rs:624 says that a failed send cannot reuse it.                     *)
NewAccountIsNew ==
    [][Confirm /\ run.pick.kind = "tail" /\ run.fresh
          => AccountOf(run.pick) \notin handed]_vars
=============================================================================
