------------------------------ MODULE SendCalls ------------------------------
(***************************************************************************)
(* How a command of the wallet gets its calls onto the chain (flow.rs:      *)
(* transfer, transact-raw, claim through commit_calls; publish-root through  *)
(* publish_root).  The calls of a command run from one account.  The wallet  *)
(* reads the balance, estimates the cost, asks the user, builds one          *)
(* transaction for all calls or, when the node will not take an atomic batch *)
(* from an EOA, one per call, and sends each after the receipt of the last.  *)
(*                                                                           *)
(* Between any two steps the chain moves: a transaction lands or is dropped, *)
(* the same key is used elsewhere, an answer of the node is lost or late.    *)
(* Amounts and fees are small numbers; sums of the wallet are taken modulo   *)
(* Mod, as U256 addition wraps.                                              *)
(***************************************************************************)
EXTENDS Integers, Sequences, FiniteSets, SequencesExt, FiniteSetsExt

CONSTANTS
    Jobs,          \* the commands that may be run
    FirstBalance,  \* balance of the account at the start
    Mod,           \* amounts are in 0 .. Mod - 1 (U256: 2^256)
    VerifyFee,     \* cost of the VERIFY frame of a transaction
    Window,        \* blocks for which a published root can be used
    MaxCommands,   \* bound: commands run one after the other
    MaxElsewhere   \* bound: transactions of the key sent by another wallet

Call == [value : 0 .. Mod - 1, fee : Nat]

(* A command: its account is an EOA or a smart account, it runs in a script *)
(* or asks, with or without --broadcast, its amount is given or MAX.        *)
AnyJob == [kind : {"transfer", "raw", "claim", "publish"},
           smart : BOOLEAN, interactive : BOOLEAN, broadcast : BOOLEAN,
           max : BOOLEAN, calls : Seq(Call)]

ASSUME SendAssumption ==
    /\ Jobs \subseteq AnyJob
    /\ Mod \in Nat \ {0} /\ FirstBalance \in 0 .. Mod - 1
    /\ VerifyFee \in Nat /\ Window \in Nat
    /\ MaxCommands \in Nat /\ MaxElsewhere \in Nat

VARIABLES
    nonce,      \* the account's transaction count on chain
    balance,    \* its balance on chain
    pool,       \* transactions waiting in the mempool
    landed,     \* receipt of every transaction that was included
    ran,        \* how often each call of each command took effect
    age,        \* blocks since the root of the current command landed
    elsewhere,  \* transactions of another wallet so far
    log,        \* one entry per command started
    pc,         \* where the current command is
    queue       \* transactions it has still to send

chainVars == <<nonce, balance, landed, ran, age, elsewhere>>
vars == <<nonce, balance, pool, landed, ran, age, elsewhere, log, pc, queue>>

-----------------------------------------------------------------------------
(* Calls, transactions and their cost.                                     *)

Command == Len(log)
Current == log[Command]
Job == Current.job
CallsOf(c) == log[c].job.calls

\* The values of calls, added the way the wallet adds them.
WrappingValue(calls) ==
    FoldSeq(LAMBDA call, sum : (sum + call.value) % Mod, 0, calls)

\* max_cost of a transaction that carries these calls.
MaxCost(calls) == VerifyFee + SumFunction([i \in DOMAIN calls |-> calls[i].fee])

\* call_cost: a transaction with the first call alone, once for each call.
CallCost(calls) ==
    LET first == SubSeq(calls, 1, IF calls = <<>> THEN 0 ELSE 1)
    IN  MaxCost(first) * (IF calls = <<>> THEN 1 ELSE Len(calls))

\* ensure_can_pay: the sum wraps.
CanPay(seen, cost, value) == seen >= (cost + value) % Mod

\* A transaction holds the positions of the calls it carries.
Tx(calls, n) == [command |-> Command, calls |-> calls, nonce |-> n]
CallsIn(tx) == [i \in DOMAIN tx.calls |-> CallsOf(tx.command)[tx.calls[i]]]

AllCalls == [i \in DOMAIN Job.calls |-> i]

\* eoa_sequence: one transaction per call, with consecutive nonces.
EoaSequence(n) == [i \in DOMAIN Job.calls |-> Tx(<<i>>, n + i - 1)]

\* Faulty: the flag is missing from the first frame instead of the last.
AtomicFlagOffByOne(tx, i) == Len(tx.calls) > 1 /\ i # 1

\* eoa_frames: every frame but the last carries the atomic batch flag.
AtomicFlag(tx, i) == Len(tx.calls) > 1 /\ i # Len(tx.calls)

\* account_frames: a smart account runs its calls in the frame of executeBatch.
InOneFrame(tx) == log[tx.command].job.smart

\* Calls i and j take effect together or not at all.
Joined(tx, i, j) ==
    \/ InOneFrame(tx)
    \/ \A k \in DOMAIN tx.calls :
          (i <= k /\ k < j) \/ (j <= k /\ k < i) => AtomicFlag(tx, k)

-----------------------------------------------------------------------------
(* The steps of the wallet.                                                *)

Init ==
    /\ nonce = 0 /\ balance = FirstBalance
    /\ pool = {} /\ landed = <<>> /\ ran = <<>>
    /\ age = 0 /\ elsewhere = 0
    /\ log = <<>> /\ pc = "idle" /\ queue = <<>>

End(report) ==
    /\ log' = [log EXCEPT ![Command].report = report]
    /\ pc' = "idle" /\ queue' = <<>>

\* A command starts: the account is picked and its balance read.
Start(job, at) ==
    /\ pc = "idle" /\ Command < MaxCommands
    /\ log' = Append(log, [job |-> job, seen |-> balance, yes |-> {}, report |-> "none"])
    /\ ran' = Append(ran, [i \in DOMAIN job.calls |-> 0])
    /\ pc' = at
    /\ UNCHANGED <<nonce, balance, pool, landed, age, elsewhere, queue>>

\* One call with a value that is chosen when the cost is known.
Transfer(job) == job.kind = "transfer" /\ Len(job.calls) = 1 /\ Start(job, "cost")

\* Any calls, also none.
TransactRaw(job) == job.kind = "raw" /\ Start(job, "cost")

\* One call without a value.
Claim(job) ==
    /\ job.kind = "claim" /\ Len(job.calls) = 1 /\ job.calls[1].value = 0
    /\ Start(job, "cost")

\* The same, and the user is asked before anything is estimated.
PublishEpochRoot(job) ==
    /\ job.kind = "publish" /\ Len(job.calls) = 1 /\ job.calls[1].value = 0
    /\ Start(job, "ask")

\* pick_value: the amount must leave the gas reserve in the account.
PickValue(seen, calls, max) ==
    LET cap == seen - CallCost(calls)
    IN  IF max THEN [calls EXCEPT ![1].value = cap] ELSE calls

ValueFits(seen, calls, value) ==
    LET cap == seen - CallCost(calls)
    IN  cap \in 1 .. seen /\ value \in 1 .. cap

\* The estimate, the choice of the amount of a transfer, and the first look
\* at whether the account can pay.
Cost ==
    LET calls == IF Job.kind = "transfer"
                 THEN PickValue(Current.seen, Job.calls, Job.max) ELSE Job.calls
    IN  /\ pc = "cost"
        /\ IF /\ Job.kind = "transfer" => ValueFits(Current.seen, Job.calls, calls[1].value)
              /\ CanPay(Current.seen, CallCost(calls), WrappingValue(calls))
           THEN /\ log' = [log EXCEPT ![Command].job.calls = calls]
                /\ pc' = "ask" /\ queue' = queue
           ELSE End("failed")
        /\ UNCHANGED <<chainVars, pool>>

\* want_broadcast: a script agrees by its flag, a user by the prompt.
WantBroadcast(yes) ==
    ~Job.interactive => (yes <=> Job.broadcast)

Ask(yes) ==
    /\ pc = "ask" /\ WantBroadcast(yes)
    /\ IF yes
       THEN /\ log' = [log EXCEPT ![Command].yes = @ \cup {"plan"}]
            /\ pc' = IF Job.kind = "publish" THEN "refresh" ELSE "plan"
            /\ queue' = queue
       ELSE End("dry")
    /\ UNCHANGED <<chainVars, pool>>

\* publish_root reads the balance again after the prompt.
RefreshBalance ==
    /\ pc = "refresh"
    /\ log' = [log EXCEPT ![Command].seen = balance]
    /\ pc' = "plan"
    /\ UNCHANGED <<chainVars, pool, queue>>

\* tx_count, answered with or without what waits in the mempool.
TxCounts ==
    {nonce, Max({nonce} \cup {tx.nonce + 1 : tx \in pool})}

\* Faulty: the estimate made before the prompt is taken for the cost.
SendOnEstimate(txs, then) ==
    queue' = txs /\ pc' = then /\ log' = log

CostOf(txs) == SumFunction([i \in DOMAIN txs |-> MaxCost(CallsIn(txs[i]))])

\* The second look at the cost, now of the transactions that will be sent.
SendIfPaid(txs, then) ==
    IF CanPay(Current.seen, CostOf(txs), WrappingValue(Job.calls))
    THEN queue' = txs /\ pc' = then /\ log' = log
    ELSE End("failed")

\* plan_txs, and publish_for up to its send: one transaction for all calls.
\* The batch of an EOA is simulated first.
Plan ==
    /\ pc = "plan"
    /\ \E n \in TxCounts :
         LET txs == <<Tx(AllCalls, n)>>
         IN  IF ~Job.smart /\ Len(Job.calls) > 1
             THEN queue' = txs /\ pc' = "simulate" /\ log' = log
             ELSE SendIfPaid(txs, "send")
    /\ UNCHANGED <<chainVars, pool>>

\* Faulty: the split is sent without a second question.
SimulateSilently(rejected) ==
    /\ pc = "simulate"
    /\ IF rejected
       THEN \E n \in TxCounts : SendIfPaid(EoaSequence(n), "send")
       ELSE SendIfPaid(queue, "send")
    /\ UNCHANGED <<chainVars, pool>>

\* The simulation rejects the atomic batch, or it does not (no support for
\* simulation and an error of the node count as no rejection).
Simulate(rejected) ==
    /\ pc = "simulate"
    /\ IF rejected
       THEN \E n \in TxCounts : SendIfPaid(EoaSequence(n), "ask_split")
       ELSE SendIfPaid(queue, "send")
    /\ UNCHANGED <<chainVars, pool>>

AskSplit(yes) ==
    /\ pc = "ask_split" /\ WantBroadcast(yes)
    /\ IF yes
       THEN /\ log' = [log EXCEPT ![Command].yes = @ \cup {"split"}]
            /\ pc' = "send" /\ queue' = queue
       ELSE End("failed")
    /\ UNCHANGED <<chainVars, pool>>

\* send_raw: the node takes the transaction.
Send ==
    /\ pc = "send"
    /\ pool' = pool \cup {Head(queue)}
    /\ pc' = "wait"
    /\ UNCHANGED <<chainVars, log, queue>>

\* The node takes it, and the answer is lost: the command fails.
SendUnanswered ==
    /\ pc = "send"
    /\ pool' = pool \cup {Head(queue)}
    /\ End("failed")
    /\ UNCHANGED chainVars

\* Faulty: the receipts of the frames are not looked at.
ReceiptStatusOk(receipt) == receipt.status

ReceiptAllOk(receipt) == receipt.status /\ receipt.frames

\* Faulty: the success is reported inside the loop, with each receipt.
ReceiptReportsEach ==
    LET rest == Tail(queue)
    IN  /\ pc = "wait" /\ Head(queue) \in DOMAIN landed
        /\ IF ~ReceiptAllOk(landed[Head(queue)]) THEN End("failed")
           ELSE /\ log' = [log EXCEPT ![Command].report = "ok"]
                /\ queue' = rest /\ pc' = IF rest = <<>> THEN "idle" ELSE "send"
        /\ UNCHANGED <<chainVars, pool>>

\* wait_receipt and receipt_all_ok, and what follows.
Receipt ==
    LET rest == Tail(queue)
    IN  /\ pc = "wait" /\ Head(queue) \in DOMAIN landed
        /\ IF ~ReceiptAllOk(landed[Head(queue)]) THEN End("failed")
           ELSE IF rest # <<>> THEN queue' = rest /\ pc' = "send" /\ log' = log
           ELSE IF Job.kind = "publish" THEN queue' = rest /\ pc' = "confirm" /\ log' = log
           ELSE End("ok")
        /\ UNCHANGED <<chainVars, pool>>

\* publish_for waits until its block is two deep and checks that the root is
\* still in the window.
Confirm ==
    /\ pc = "confirm" /\ age >= 2
    /\ End(IF age <= Window THEN "ok" ELSE "failed")
    /\ UNCHANGED <<chainVars, pool>>

\* Faulty: the wait for the confirmations of a publication has no deadline.
GiveUpOnReceipt ==
    /\ pc = "wait"
    /\ End("failed")
    /\ UNCHANGED <<chainVars, pool>>

\* wait_receipt gives up after 360 seconds, publish_for after 180.
GiveUp ==
    /\ pc \in {"wait", "confirm"}
    /\ End("failed")
    /\ UNCHANGED <<chainVars, pool>>

\* Any request can fail, a check of the network or a gate of the node can
\* refuse, and the user can interrupt: the command ends where it is.
Fail ==
    /\ pc # "idle"
    /\ End("failed")
    /\ UNCHANGED <<chainVars, pool>>

-----------------------------------------------------------------------------
(* The chain and the other users of the key.                               *)

PaidOut(calls, good) == MapThenSumSet(LAMBDA i : calls[i].value, good)

\* A transaction is included when its nonce is next and its cost is covered.
\* The calls in bad revert; what is joined to one of them does as well.
Include(tx, bad) ==
    LET calls == CallsIn(tx)
        good == {i \in DOMAIN calls : \A j \in bad : ~Joined(tx, i, j)}
        spent == MaxCost(calls) + PaidOut(calls, good)
    IN  /\ tx.nonce = nonce /\ spent \in 0 .. balance
        /\ nonce' = nonce + 1 /\ balance' = balance - spent
        /\ \E status \in BOOLEAN :
             /\ good = DOMAIN calls => status
             /\ landed' = [t \in DOMAIN landed \cup {tx} |->
                             IF t = tx THEN [status |-> status, frames |-> good = DOMAIN calls]
                             ELSE landed[t]]
        /\ ran' = [ran EXCEPT ![tx.command] =
                     [i \in DOMAIN @ |-> @[i] + Cardinality({k \in good : tx.calls[k] = i})]]
        /\ age' = IF tx.command = Command /\ Job.kind = "publish" THEN 0 ELSE age
        /\ pool' = pool \ {tx}
        /\ UNCHANGED <<elsewhere, log, pc, queue>>

\* The mempool forgets a transaction.
Drop(tx) ==
    /\ pool' = pool \ {tx}
    /\ UNCHANGED <<chainVars, log, pc, queue>>

\* The same key signs in another wallet.
Elsewhere(left) ==
    /\ elsewhere < MaxElsewhere
    /\ elsewhere' = elsewhere + 1
    /\ nonce' = nonce + 1 /\ balance' = left
    /\ UNCHANGED <<pool, landed, ran, age, log, pc, queue>>

\* A block goes by; only the age of a publication looks at blocks.
NewBlock ==
    /\ pc = "confirm" /\ age <= Window
    /\ age' = age + 1
    /\ UNCHANGED <<nonce, balance, pool, landed, ran, elsewhere, log, pc, queue>>

Wallet ==
    \/ Cost \/ RefreshBalance \/ Plan \/ Send \/ Receipt \/ Confirm \/ GiveUp
    \/ \E yes \in BOOLEAN : Simulate(yes)
    \/ \E yes \in BOOLEAN : Ask(yes) \/ AskSplit(yes)

Network ==
    \/ \E tx \in pool : Drop(tx) \/ \E bad \in SUBSET DOMAIN tx.calls : Include(tx, bad)
    \/ \E left \in 0 .. balance : Elsewhere(left)
    \/ NewBlock

Next ==
    \/ \E job \in Jobs :
          Transfer(job) \/ TransactRaw(job) \/ Claim(job) \/ PublishEpochRoot(job)
    \/ Wallet \/ SendUnanswered \/ Fail
    \/ Network

\* A script that was started keeps running; a prompt may wait for ever, and
\* the chain owes the wallet nothing.
Prompting == pc \in {"ask", "ask_split"} /\ Job.interactive

Spec == Init /\ [][Next]_vars /\ WF_vars(Wallet /\ ~Prompting)

-----------------------------------------------------------------------------
(* Properties.                                                             *)

Reports == {"none", "dry", "ok", "failed"}

\* Every variable holds a value of its kind, nothing waits that has landed,
\* and an entry of the log has no report exactly while its command runs.
TypeOK ==
    /\ nonce \in Nat /\ balance \in 0 .. Mod - 1 /\ age \in 0 .. Window + 1
    /\ elsewhere \in 0 .. MaxElsewhere
    /\ pc \in {"idle", "cost", "ask", "refresh", "plan", "simulate", "ask_split",
               "send", "wait", "confirm"}
    /\ Len(ran) = Command /\ Command <= MaxCommands
    /\ \A c \in 1 .. Command :
         /\ log[c].seen \in 0 .. Mod - 1 /\ log[c].yes \subseteq {"plan", "split"}
         /\ \A i \in DOMAIN CallsOf(c) : CallsOf(c)[i] \in Call
         /\ log[c].report \in Reports
         /\ (log[c].report = "none") <=> (c = Command /\ pc # "idle")
    /\ pool \cap DOMAIN landed = {}
    /\ (queue # <<>>) <=> (pc \in {"simulate", "ask_split", "send", "wait"})

\* The first n calls of c took effect once, and the others did not.
RanFirst(c, n) ==
    ran[c] = [i \in DOMAIN CallsOf(c) |-> IF i <= n THEN 1 ELSE 0]

\* What took effect of a command is at all times a beginning of its calls, so
\* they run in order, and each once; all of them or none, unless the user
\* agreed to the split (eoa_frames' batch flag, commit_calls waiting for each
\* receipt).
RanInOrder ==
    \A c \in 1 .. Command :
        LET all == Len(CallsOf(c))
        IN  \E n \in IF "split" \in log[c].yes THEN 0 .. all ELSE {0, all} :
              RanFirst(c, n)

Sent(c) == {tx \in pool \cup DOMAIN landed : tx.command = c}

\* Nothing of a command reaches the node before the user, or the flag of the
\* script, agreed to it, and no part of its calls alone before they agreed to
\* the split (want_broadcast in commit_calls and plan_txs).
NothingUnasked ==
    \A c \in 1 .. Command : \A tx \in Sent(c) :
        /\ "plan" \in log[c].yes
        /\ Len(tx.calls) < Len(CallsOf(c)) => "split" \in log[c].yes
        /\ log[c].job.interactive \/ log[c].job.broadcast

TrueValue(calls) == SumFunction([i \in DOMAIN calls |-> calls[i].value])

\* The fees of all that a command sets out to send.
PlannedFees(c) ==
    LET calls == CallsOf(c)
    IN  IF "split" \in log[c].yes
        THEN SumFunction([i \in DOMAIN calls |-> MaxCost(<<calls[i]>>)])
        ELSE MaxCost(calls)

\* All that a command sends, values and fees together, fits the balance it
\* last read, whatever number of transactions it takes, unless what it sets
\* out to send does not fit a U256 (call_cost is an estimate of the first
\* call; plan_txs looks again at what was built).
SentIsAffordable ==
    \A c \in 1 .. Command :
        LET value == TrueValue(CallsOf(c))
            fees == SumFunction([tx \in Sent(c) |-> MaxCost(CallsIn(tx))])
        IN  Sent(c) # {} /\ value + PlannedFees(c) < Mod
              => value + fees <= log[c].seen

\* A command that reports success has had all its calls take effect, and a
\* published root is two blocks deep and still in the window at that moment
\* (receipt_all_ok, commit_calls, publish_for).
ReportIsTrue ==
    [][\A c \in 1 .. Command :
         log[c].report = "none" /\ log'[c].report = "ok"
           => /\ RanFirst(c, Len(CallsOf(c)))
              /\ log[c].job.kind = "publish" => age \in 2 .. Window]_vars

\* A command that waits for no prompt comes to an end, whether or not the
\* chain ever includes what it sent (the deadlines of wait_receipt and
\* publish_for).
CommandEnds == (pc # "idle" /\ ~Job.interactive) ~> (pc = "idle")
=============================================================================
