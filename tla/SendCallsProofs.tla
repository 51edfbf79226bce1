-------------------------- MODULE SendCallsProofs --------------------------
(***************************************************************************)
(* Theorems about SendCalls for any commands, calls, fees, balances and    *)
(* windows: nothing is sent that was not agreed to, calls run in order and *)
(* once, a success is one, and what is sent can be paid for.               *)
(***************************************************************************)
EXTENDS SendCalls, TLAPS, SequenceTheorems, FiniteSetTheorems, WellFoundedInduction

Entry == [job : AnyJob, seen : 0 .. Mod - 1, yes : SUBSET {"plan", "split"},
          report : Reports]

(* The kinds of values that TypeOK does not need for its own sake.          *)
Shapes ==
    /\ log \in Seq(Entry)
    /\ ran \in Seq(Seq({0, 1}))
    /\ landed \in [DOMAIN landed -> [status : BOOLEAN, frames : BOOLEAN]]
    /\ queue \in Seq({queue[i] : i \in DOMAIN queue})

(* A transaction carries all calls of its command, or one.                  *)
Whole(tx) == tx.calls = [i \in DOMAIN CallsOf(tx.command) |-> i]

Fit(tx) ==
    /\ tx.command \in 1 .. Command
    /\ Whole(tx) \/ \E i \in DOMAIN CallsOf(tx.command) : tx.calls = <<i>>

(* What must have been agreed to before it may be sent.                     *)
Agreed(tx) ==
    /\ "plan" \in log[tx.command].yes
    /\ Len(tx.calls) < Len(CallsOf(tx.command)) => "split" \in log[tx.command].yes
    /\ log[tx.command].job.interactive \/ log[tx.command].job.broadcast

(* The calls before its own have taken effect, and no other; or its own have*)
(* as well.                                                                 *)
Due(tx) == RanFirst(tx.command, IF Whole(tx) THEN 0 ELSE tx.calls[1] - 1)
Done(tx) ==
    RanFirst(tx.command, IF Whole(tx) THEN Len(CallsOf(tx.command)) ELSE tx.calls[1])

(* What was sent was agreed to; what waits is due, one for each command.    *)
TxInv ==
    /\ \A tx \in pool \cup DOMAIN landed : Fit(tx) /\ Agreed(tx)
    /\ \A tx \in pool : Due(tx)
    /\ \A t, u \in pool : t.command = u.command => t = u
    /\ RanInOrder

(* The queue of the current command: all calls in one transaction, or the   *)
(* last calls one by one.                                                   *)
AllInOne(q) == Len(q) = 1 /\ q[1].command = Command /\ Whole(q[1])
OneByOne(q) ==
    /\ Len(q) <= Len(Job.calls)
    /\ \A i \in 1 .. Len(q) :
         q[i].command = Command /\ q[i].calls = <<Len(Job.calls) - Len(q) + i>>

Unsent(q, first) ==
    \A tx \in Sent(Command) : \A i \in first .. Len(q) : tx.calls # q[i].calls
NonePending == \A tx \in pool : tx.command # Command

Started == {"cost", "ask", "refresh", "plan", "simulate", "ask_split"}
AfterAsk == {"refresh", "plan", "simulate", "ask_split", "send", "wait"}

(* Where the current command is.                                            *)
Going ==
    /\ pc # "idle" => Command > 0
    /\ pc = "cost" /\ Job.kind = "transfer" => Len(Job.calls) = 1
    /\ pc \in Started => Sent(Command) = {} /\ RanFirst(Command, 0)
    /\ pc \in AfterAsk => "plan" \in Current.yes /\ (Job.interactive \/ Job.broadcast)
    /\ pc = "simulate" => AllInOne(queue) /\ Len(Job.calls) > 1
    /\ pc = "ask_split" => OneByOne(queue) /\ Len(queue) = Len(Job.calls)
    /\ pc \in {"send", "wait"} =>
         AllInOne(queue) \/ (OneByOne(queue) /\ "split" \in Current.yes)
    /\ pc = "send" => Unsent(queue, 1) /\ NonePending /\ Due(Head(queue))
    /\ pc = "wait" =>
         /\ Unsent(queue, 2)
         /\ \A tx \in pool : tx.command = Command => tx = Head(queue)
         /\ Head(queue) \in DOMAIN landed /\ landed[Head(queue)].frames => Done(Head(queue))
    /\ pc = "confirm" => NonePending /\ RanFirst(Command, Len(Job.calls))

IInv == TypeOK /\ Shapes /\ TxInv /\ Going

-----------------------------------------------------------------------------
(* What the log holds.                                                      *)

LEMMA LogHas ==
    ASSUME log \in Seq(Entry)
    PROVE  /\ Command \in Nat /\ DOMAIN log = 1 .. Command
           /\ \A c \in 1 .. Command :
                /\ log[c] \in Entry
                /\ CallsOf(c) \in Seq(Call)
                /\ Len(CallsOf(c)) \in Nat
                /\ DOMAIN CallsOf(c) = 1 .. Len(CallsOf(c))
<1>1. Command \in Nat /\ DOMAIN log = 1 .. Command
  BY DEF Command
<1>2. ASSUME NEW c \in 1 .. Command
      PROVE  /\ log[c] \in Entry
             /\ CallsOf(c) \in Seq(Call)
             /\ Len(CallsOf(c)) \in Nat
             /\ DOMAIN CallsOf(c) = 1 .. Len(CallsOf(c))
  <2>1. log[c] \in Entry
    BY DEF Command
  <2>2. CallsOf(c) \in Seq(Call)
    BY <2>1 DEF Entry, AnyJob, CallsOf
  <2> QED
    BY <2>1, <2>2, LenProperties
<1> QED
  BY <1>1, <1>2

(* A step of a command may take a yes, choose an amount and report; what the*)
(* log says of the sending stays.                                           *)
EntryKeeps(old, new) ==
    /\ DOMAIN new.job.calls = DOMAIN old.job.calls
    /\ old.yes \subseteq new.yes
    /\ new.job.interactive = old.job.interactive
    /\ new.job.broadcast = old.job.broadcast

LogKeeps ==
    /\ log' \in Seq(Entry) /\ Command <= Command'
    /\ \A c \in 1 .. Command : EntryKeeps(log[c], log'[c])

LEMMA SameCalls ==
    ASSUME Shapes, LogKeeps, NEW c \in 1 .. Command
    PROVE  /\ c \in 1 .. Command'
           /\ DOMAIN CallsOf(c)' = DOMAIN CallsOf(c)
           /\ Len(CallsOf(c))' = Len(CallsOf(c))
           /\ log[c].yes \subseteq log'[c].yes
           /\ log'[c].job.interactive = log[c].job.interactive
           /\ log'[c].job.broadcast = log[c].job.broadcast
<1>1. Command \in Nat /\ c \in 1 .. Command' /\ Command' \in Nat
  BY LogHas DEF Shapes, LogKeeps, Command
<1>2. EntryKeeps(log[c], log'[c])
  BY DEF LogKeeps
<1>3. CallsOf(c) \in Seq(Call) /\ CallsOf(c)' \in Seq(Call)
  <2>1. log[c] \in Entry /\ log'[c] \in Entry
    BY <1>1 DEF Shapes, LogKeeps, Command
  <2> QED
    BY <2>1 DEF Entry, AnyJob, CallsOf
<1>4. DOMAIN CallsOf(c)' = DOMAIN CallsOf(c)
  BY <1>2 DEF EntryKeeps, CallsOf
<1>5. Len(CallsOf(c))' = Len(CallsOf(c))
  BY <1>3, <1>4
<1> QED
  BY <1>1, <1>2, <1>4, <1>5 DEF EntryKeeps

(* A transaction is what it was when commands move on.                      *)
LEMMA TxSame ==
    ASSUME Shapes, LogKeeps, NEW tx, Fit(tx),
           \A c \in 1 .. Command : ran'[c] = ran[c]
    PROVE  /\ Fit(tx)' /\ (Whole(tx)' <=> Whole(tx))
           /\ Agreed(tx) => Agreed(tx)'
           /\ Due(tx) => Due(tx)'
<1>1. tx.command \in 1 .. Command
  BY DEF Fit
<1>2. Whole(tx)' <=> Whole(tx)
  BY <1>1, SameCalls DEF Whole
<1>3. Fit(tx)'
  BY <1>1, <1>2, SameCalls DEF Fit
<1>4. Agreed(tx) => Agreed(tx)'
  BY <1>1, SameCalls DEF Agreed
<1>5. \A n : RanFirst(tx.command, n)' <=> RanFirst(tx.command, n)
  BY <1>1, SameCalls DEF RanFirst
<1>6. Due(tx) => Due(tx)'
  BY <1>2, <1>5 DEF Due
<1> QED
  BY <1>2, <1>3, <1>4, <1>6

LEMMA RanKeeps ==
    ASSUME Shapes, RanInOrder, LogKeeps,
           \A c \in 1 .. Command : ran'[c] = ran[c],
           \A c \in Command + 1 .. Command' : RanFirst(c, 0)'
    PROVE  RanInOrder'
<1> SUFFICES ASSUME NEW c \in 1 .. Command'
             PROVE  \E n \in IF "split" \in log'[c].yes THEN 0 .. Len(CallsOf(c))'
                             ELSE {0, Len(CallsOf(c))'} : RanFirst(c, n)'
  BY DEF RanInOrder
<1>1. Command \in Nat /\ Command' \in Nat /\ Len(CallsOf(c))' \in Nat
  <2>1. Command' \in Nat /\ log'[c] \in Entry
    BY DEF LogKeeps, Command
  <2>2. CallsOf(c)' \in Seq(Call)
    BY <2>1 DEF Entry, AnyJob, CallsOf
  <2> QED
    BY <2>1, <2>2, LogHas DEF Shapes
<1>2. CASE c \in 1 .. Command
  <2>1. PICK n \in IF "split" \in log[c].yes THEN 0 .. Len(CallsOf(c))
                   ELSE {0, Len(CallsOf(c))} : RanFirst(c, n)
    BY <1>2 DEF RanInOrder
  <2>2. RanFirst(c, n)'
    BY <1>2, <2>1, SameCalls DEF RanFirst
  <2>3. n \in IF "split" \in log'[c].yes THEN 0 .. Len(CallsOf(c))'
               ELSE {0, Len(CallsOf(c))'}
    BY <1>1, <1>2, <2>1, SameCalls
  <2> QED
    BY <2>2, <2>3
<1>3. CASE c \in Command + 1 .. Command'
  BY <1>1, <1>3
<1> QED
  BY <1>1, <1>2, <1>3

(* What was sent stays as it is when commands and the mempool move on.      *)
LEMMA TxKeeps ==
    ASSUME Shapes, TxInv, LogKeeps, pool' \subseteq pool, landed' = landed,
           \A c \in 1 .. Command : ran'[c] = ran[c],
           \A c \in Command + 1 .. Command' : RanFirst(c, 0)'
    PROVE  TxInv'
BY TxSame, RanKeeps DEF TxInv

-----------------------------------------------------------------------------
(* The steps of the wallet.                                                 *)

Places == {"idle", "cost", "ask", "refresh", "plan", "simulate", "ask_split",
           "send", "wait", "confirm"}
Queueing == {"simulate", "ask_split", "send", "wait"}

LEMMA LogUpdate ==
    ASSUME log \in Seq(Entry), Command > 0, NEW e \in Entry,
           log' = [log EXCEPT ![Command] = e], EntryKeeps(Current, e)
    PROVE  /\ LogKeeps /\ Command' = Command /\ Current' = e /\ Job' = e.job
           /\ \A c \in 1 .. Command : c # Command => log'[c] = log[c]
<1>1. Command \in Nat /\ Command \in 1 .. Len(log) /\ Len(log) = Command
  BY LogHas DEF Command
<1>2. log' \in Seq(Entry) /\ Len(log') = Len(log) /\ log'[Command] = e
  BY <1>1
<1>3. Command' = Command /\ Current' = e
  BY <1>1, <1>2 DEF Command, Current
<1>4. ASSUME NEW c \in 1 .. Command  PROVE EntryKeeps(log[c], log'[c])
  BY <1>1, <1>2 DEF EntryKeeps, Current
<1>5. \A c \in 1 .. Command : c # Command => log'[c] = log[c]
  BY <1>1
<1> QED
  BY <1>1, <1>2, <1>3, <1>4, <1>5 DEF LogKeeps, Job

LEMMA LogUnchanged ==
    ASSUME log \in Seq(Entry), log' = log
    PROVE  /\ LogKeeps /\ Command' = Command /\ Current' = Current /\ Job' = Job
           /\ \A c \in 1 .. Command : log'[c] = log[c]
BY LogHas DEF LogKeeps, EntryKeeps, Command, Current, Job

(* A step of a command keeps the invariant if it keeps what was sent and if *)
(* the command is where its queue and its report say.                       *)
LEMMA StepKeeps ==
    ASSUME IInv, LogKeeps, Command' = Command, UNCHANGED chainVars,
           TxInv', pool' \cap DOMAIN landed = {},
           \A c \in 1 .. Command : c # Command => log'[c] = log[c],
           pc # "idle", pc' \in Places,
           Current'.report = "none" <=> pc' # "idle",
           queue' # <<>> <=> pc' \in Queueing,
           queue' \in Seq({queue'[i] : i \in DOMAIN queue'}),
           Going'
    PROVE  IInv'
<1>1. Shapes'
  BY DEF IInv, Shapes, LogKeeps, chainVars
<1>2. TypeOK'
  <2>1. Command \in Nat /\ Command' \in Nat
    BY LogHas DEF IInv, Shapes
  <2>2. ASSUME NEW c \in 1 .. Command'
        PROVE  /\ log'[c].seen \in 0 .. Mod - 1 /\ log'[c].yes \subseteq {"plan", "split"}
               /\ \A i \in DOMAIN CallsOf(c)' : CallsOf(c)'[i] \in Call
               /\ log'[c].report \in Reports
               /\ (log'[c].report = "none") <=> (c = Command' /\ pc' # "idle")
    <3>1. log'[c] \in Entry
      BY DEF LogKeeps, Command
    <3>2. CallsOf(c)' \in Seq(Call)
      BY <3>1 DEF Entry, AnyJob, CallsOf
    <3>3. \A i \in DOMAIN CallsOf(c)' : CallsOf(c)'[i] \in Call
      BY <3>2
    <3>4. (log'[c].report = "none") <=> (c = Command' /\ pc' # "idle")
      <4>1. CASE c = Command
        BY <4>1 DEF Current
      <4>2. CASE c # Command
        BY <4>2 DEF IInv, TypeOK
      <4> QED
        BY <4>1, <4>2
    <3> QED
      BY <3>1, <3>3, <3>4 DEF Entry
  <2> QED
    BY <2>2 DEF TypeOK, IInv, chainVars, Places, Queueing
<1> QED
  BY <1>1, <1>2 DEF IInv

(* With the mempool as it was, what was sent is kept.                       *)
LEMMA QuietKeeps ==
    ASSUME IInv, LogKeeps, Command' = Command, UNCHANGED <<chainVars, pool>>
    PROVE  /\ TxInv' /\ pool' \cap DOMAIN landed = {}
           /\ Sent(Command)' = Sent(Command) /\ (NonePending' <=> NonePending)
<1>1. \A c \in Command + 1 .. Command' : RanFirst(c, 0)'
  BY LogHas DEF IInv, Shapes
<1>2. TxInv'
  BY <1>1, TxKeeps DEF IInv, chainVars
<1> QED
  BY <1>2 DEF IInv, TypeOK, chainVars, Sent, NonePending

(* A step that ends the command, with what was sent as it is then.          *)
LEMMA EndsKeeps ==
    ASSUME IInv, pc # "idle", NEW report \in Reports \ {"none"}, End(report),
           UNCHANGED chainVars,
           LogKeeps /\ Command' = Command => TxInv' /\ pool' \cap DOMAIN landed = {}
    PROVE  IInv'
<1> DEFINE e == [Current EXCEPT !.report = report]
<1>1. Command > 0 /\ log \in Seq(Entry) /\ Current \in Entry
  BY LogHas DEF IInv, Going, Shapes, Current
<1>2. e \in Entry /\ EntryKeeps(Current, e) /\ e.report = report
  BY <1>1 DEF Entry, EntryKeeps
<1>3. log' = [log EXCEPT ![Command] = e] /\ pc' = "idle" /\ queue' = <<>>
  BY DEF End, Current
<1> HIDE DEF e
<1>4. /\ LogKeeps /\ Command' = Command /\ Current' = e
      /\ \A c \in 1 .. Command : c # Command => log'[c] = log[c]
  BY <1>1, <1>2, <1>3, LogUpdate
<1>5. Going'
  BY <1>3 DEF Going, Started, AfterAsk
<1>6. queue' \in Seq({queue'[i] : i \in DOMAIN queue'})
  BY <1>3
<1> QED
  BY <1>2, <1>3, <1>4, <1>5, <1>6, StepKeeps DEF Places, Queueing

LEMMA EndKeeps ==
    ASSUME IInv, pc # "idle", NEW report \in Reports \ {"none"}, End(report),
           UNCHANGED <<chainVars, pool>>
    PROVE  IInv'
BY QuietKeeps, EndsKeeps

LEMMA StartKeeps ==
    ASSUME IInv, NEW job \in Jobs, NEW at \in {"cost", "ask"}, Start(job, at),
           job.kind = "transfer" => Len(job.calls) = 1
    PROVE  IInv'
<1> DEFINE e == [job |-> job, seen |-> balance, yes |-> {}, report |-> "none"]
           zero == [i \in DOMAIN job.calls |-> 0]
<1>1. /\ log \in Seq(Entry) /\ ran \in Seq(Seq({0, 1})) /\ Len(ran) = Command
      /\ Command \in Nat /\ Len(log) = Command /\ job \in AnyJob
      /\ \A c \in 1 .. Command : log[c] \in Entry
  BY SendAssumption, LogHas DEF IInv, Shapes, TypeOK, Command
<1>2. e \in Entry
  BY <1>1 DEF Entry, IInv, TypeOK, Reports
<1>3. zero \in Seq({0, 1})
  <2>1. Len(job.calls) \in Nat /\ DOMAIN job.calls = 1 .. Len(job.calls)
    BY <1>1, LenProperties DEF AnyJob
  <2> QED
    BY <2>1
<1>4. /\ log' = Append(log, e) /\ ran' = Append(ran, zero)
      /\ pc = "idle" /\ Command < MaxCommands /\ pc' = at
      /\ UNCHANGED <<nonce, balance, pool, landed, age, elsewhere, queue>>
  BY DEF Start
<1>5. /\ log' \in Seq(Entry) /\ Len(log') = Command + 1 /\ log'[Command + 1] = e
      /\ \A c \in 1 .. Command : log'[c] = log[c]
  <2> HIDE DEF e
  <2> QED
    BY <1>1, <1>2, <1>4
<1>6. /\ ran' \in Seq(Seq({0, 1})) /\ Len(ran') = Command + 1 /\ ran'[Command + 1] = zero
      /\ \A c \in 1 .. Command : ran'[c] = ran[c]
  <2> HIDE DEF zero
  <2> QED
    BY <1>1, <1>3, <1>4
<1>7. Command' = Command + 1 /\ Command' > 0 /\ Current' = e /\ Job' = job
  BY <1>1, <1>5 DEF Command, Current, Job
<1>8. LogKeeps
  BY <1>5, <1>7 DEF LogKeeps, EntryKeeps, Command
<1>9. RanFirst(Command, 0)'
  <2>1. CallsOf(Command)' = job.calls /\ ran'[Command'] = zero
    BY <1>5, <1>6, <1>7 DEF CallsOf
  <2>2. Len(job.calls) \in Nat /\ DOMAIN job.calls = 1 .. Len(job.calls)
    BY <1>1, LenProperties DEF AnyJob
  <2>3. zero = [i \in DOMAIN job.calls |-> IF i <= 0 THEN 1 ELSE 0]
    BY <2>2
  <2> QED
    BY <2>1, <2>3 DEF RanFirst
<1>10. TxInv'
  <2>1. \A c \in Command + 1 .. Command' : RanFirst(c, 0)'
    <3>1. \A c \in Command + 1 .. Command' : c = Command'
      BY <1>1, <1>7
    <3>2. \A c : c = Command' => RanFirst(c, 0)'
      BY <1>9 DEF RanFirst, CallsOf
    <3> QED
      BY <3>1, <3>2
  <2> QED
    BY <1>4, <1>6, <1>8, <2>1, TxKeeps DEF IInv
<1>11. Sent(Command)' = {}
  <2>1. \A tx \in pool \cup DOMAIN landed : tx.command # Command'
    BY <1>1, <1>7 DEF IInv, TxInv, Fit
  <2> QED
    BY <1>4, <2>1 DEF Sent
<1>12. Going'
  BY <1>4, <1>7, <1>9, <1>11 DEF Going, Started, AfterAsk
<1>13. Shapes'
  BY <1>4, <1>5, <1>6 DEF IInv, Shapes
<1>14. TypeOK'
  <2>1. ASSUME NEW c \in 1 .. Command'
        PROVE  /\ log'[c].seen \in 0 .. Mod - 1 /\ log'[c].yes \subseteq {"plan", "split"}
               /\ \A i \in DOMAIN CallsOf(c)' : CallsOf(c)'[i] \in Call
               /\ log'[c].report \in Reports
               /\ (log'[c].report = "none") <=> (c = Command' /\ pc' # "idle")
    <3>1. log'[c] \in Entry
      BY <1>5, <1>7
    <3>2. CallsOf(c)' \in Seq(Call)
      BY <3>1 DEF Entry, AnyJob, CallsOf
    <3>3. \A i \in DOMAIN CallsOf(c)' : CallsOf(c)'[i] \in Call
      BY <3>2
    <3>4. (log'[c].report = "none") <=> (c = Command' /\ pc' # "idle")
      <4>1. CASE c = Command'
        BY <1>4, <1>5, <1>7, <4>1
      <4>2. CASE c # Command'
        <5>1. c \in 1 .. Command /\ log'[c] = log[c]
          BY <1>1, <1>5, <1>7, <4>2
        <5> QED
          BY <1>4, <5>1, <4>2 DEF IInv, TypeOK
      <4> QED
        BY <4>1, <4>2
    <3> QED
      BY <3>1, <3>3, <3>4 DEF Entry
  <2>2. Command' <= MaxCommands /\ Len(ran') = Command'
    BY <1>1, <1>4, <1>6, <1>7, SendAssumption
  <2> QED
    BY <1>4, <2>1, <2>2 DEF IInv, TypeOK
<1> QED
  BY <1>10, <1>12, <1>13, <1>14 DEF IInv

(* A step of the command in which the file of the log gets the entry e.     *)
LEMMA UpdateKeeps ==
    ASSUME IInv, pc # "idle", pc' \in Places \ {"idle"}, NEW e \in Entry,
           log' = [log EXCEPT ![Command] = e], EntryKeeps(Current, e),
           e.report = Current.report, UNCHANGED <<chainVars, pool>>,
           queue' # <<>> <=> pc' \in Queueing,
           queue' \in Seq({queue'[i] : i \in DOMAIN queue'}),
           Going'
    PROVE  IInv'
<1>1. Command > 0 /\ log \in Seq(Entry)
  BY DEF IInv, Going, Shapes
<1>2. /\ LogKeeps /\ Command' = Command /\ Current' = e
      /\ \A c \in 1 .. Command : c # Command => log'[c] = log[c]
  BY <1>1, LogUpdate
<1>3. TxInv' /\ pool' \cap DOMAIN landed = {}
  BY <1>2, QuietKeeps
<1>4. Current.report = "none"
  BY <1>1, LogHas DEF IInv, TypeOK, Current
<1> QED
  BY <1>2, <1>3, <1>4, StepKeeps

LEMMA CostKeeps == ASSUME IInv, Cost PROVE IInv'
<1> DEFINE calls == IF Job.kind = "transfer"
                    THEN PickValue(Current.seen, Job.calls, Job.max) ELSE Job.calls
           fits == Job.kind = "transfer" => ValueFits(Current.seen, Job.calls, calls[1].value)
           e == [Current EXCEPT !.job = [@ EXCEPT !.calls = calls]]
<1>1. pc = "cost" /\ UNCHANGED <<chainVars, pool>>
  BY DEF Cost
<1>2. \/ fits /\ log' = [log EXCEPT ![Command].job.calls = calls] /\ pc' = "ask" /\ queue' = queue
      \/ End("failed")
  BY DEF Cost
<1>3. CASE End("failed")
  BY <1>1, <1>3, EndKeeps DEF Reports
<1>4. CASE fits /\ log' = [log EXCEPT ![Command].job.calls = calls] /\ pc' = "ask" /\ queue' = queue
  <2>1. Command > 0 /\ log \in Seq(Entry) /\ Current \in Entry
    BY <1>1, LogHas DEF IInv, Going, Shapes, Current
  <2>2. Job \in AnyJob /\ Job.calls \in Seq(Call) /\ Current.seen \in 0 .. Mod - 1
    BY <2>1 DEF Entry, AnyJob, Job
  <2>3. calls \in Seq(Call) /\ DOMAIN calls = DOMAIN Job.calls
    <3>1. CASE Job.kind = "transfer" /\ Job.max
      <4> DEFINE cap == Current.seen - CallCost(Job.calls)
      <4>1. cap \in 1 .. Current.seen
        BY <1>4, <3>1 DEF ValueFits
      <4>2. cap \in 0 .. Mod - 1
        BY <2>2, <4>1, SendAssumption
      <4>3. calls = [Job.calls EXCEPT ![1].value = cap]
        BY <3>1 DEF PickValue
      <4>4. Len(Job.calls) = 1
        BY <1>1, <3>1 DEF IInv, Going
      <4> HIDE DEF cap, calls
      <4>5. [Job.calls[1] EXCEPT !.value = cap] \in Call
        <5>1. Job.calls[1] \in Call
          BY <2>2, <4>4
        <5>2. \A f \in Call, v \in 0 .. Mod - 1 : [f EXCEPT !.value = v] \in Call
          BY DEF Call
        <5> QED
          BY <4>2, <5>1, <5>2
      <4>6. calls = [Job.calls EXCEPT ![1] = [Job.calls[1] EXCEPT !.value = cap]]
        BY <4>3
      <4> QED
        BY <2>2, <4>4, <4>5, <4>6
    <3>2. CASE ~(Job.kind = "transfer" /\ Job.max)
      BY <2>2, <3>2 DEF PickValue
    <3> QED
      BY <3>1, <3>2
  <2>4. log' = [log EXCEPT ![Command] = e]
    BY <1>4 DEF Current
  <2> HIDE DEF calls
  <2>5. e \in Entry /\ EntryKeeps(Current, e) /\ e.report = Current.report /\ e.job.calls = calls
    BY <2>1, <2>2, <2>3 DEF Entry, AnyJob, EntryKeeps, Job
  <2> HIDE DEF e
  <2>6. LogKeeps /\ Command' = Command
    BY <2>1, <2>4, <2>5, LogUpdate
  <2>7. Sent(Command)' = {} /\ RanFirst(Command, 0)'
    <3>1. Command \in 1 .. Command
      BY <2>1, LogHas
    <3>2. DOMAIN CallsOf(Command)' = DOMAIN CallsOf(Command)
      BY <2>6, <3>1, SameCalls DEF IInv, CallsOf
    <3> QED
      BY <1>1, <2>6, <3>2, QuietKeeps DEF IInv, Going, Started, RanFirst, chainVars
  <2>8. Going'
    BY <1>4, <2>1, <2>6, <2>7 DEF Going, Started, AfterAsk
  <2>9. queue' \in Seq({queue'[i] : i \in DOMAIN queue'}) /\ queue' = <<>>
    BY <1>1, <1>4 DEF IInv, Shapes, TypeOK
  <2> QED
    BY <1>1, <1>4, <2>4, <2>5, <2>8, <2>9, UpdateKeeps DEF Places, Queueing
<1> QED
  BY <1>2, <1>3, <1>4

(* The command of a step that is not the first one.                         *)
LEMMA CurrentHas ==
    ASSUME IInv, pc # "idle"
    PROVE  /\ Command > 0 /\ Command \in 1 .. Command /\ log \in Seq(Entry)
           /\ Current \in Entry /\ Current = log[Command] /\ Job.calls = CallsOf(Command)
           /\ Job.calls \in Seq(Call) /\ Len(Job.calls) \in Nat
           /\ DOMAIN Job.calls = 1 .. Len(Job.calls)
           /\ Current.report = "none"
<1>1. Command > 0 /\ log \in Seq(Entry)
  BY DEF IInv, Going, Shapes
<1>2. Command \in 1 .. Command
  BY <1>1, LogHas
<1>3. Current = log[Command] /\ Job.calls = CallsOf(Command)
  BY DEF Current, Job, CallsOf
<1>4. Current.report = "none"
  BY <1>2, <1>3 DEF IInv, TypeOK
<1> QED
  BY <1>1, <1>2, <1>3, <1>4, LogHas

(* What a yes, a new balance or nothing at all in the log leaves alone.     *)
LEMMA SameCommand ==
    ASSUME IInv, pc # "idle", LogKeeps, Command' = Command,
           UNCHANGED <<chainVars, pool>>
    PROVE  /\ Sent(Command)' = Sent(Command) /\ (NonePending' <=> NonePending)
           /\ Len(Job.calls)' = Len(Job.calls)
           /\ \A n : RanFirst(Command, n)' <=> RanFirst(Command, n)
           /\ \A tx : tx.command = Command =>
                (Whole(tx)' <=> Whole(tx)) /\ (Due(tx)' <=> Due(tx)) /\ (Done(tx)' <=> Done(tx))
<1>1. Sent(Command)' = Sent(Command) /\ (NonePending' <=> NonePending)
  BY QuietKeeps
<1>2. Command \in 1 .. Command /\ Job.calls = CallsOf(Command)
  BY CurrentHas
<1>3. DOMAIN CallsOf(Command)' = DOMAIN CallsOf(Command)
  BY <1>2, SameCalls DEF IInv, CallsOf
<1>4. Len(CallsOf(Command))' = Len(CallsOf(Command))
  BY <1>2, SameCalls DEF IInv, CallsOf
<1>5. Len(Job.calls)' = Len(Job.calls)
  BY <1>2, <1>4 DEF Job, Current, CallsOf
<1>6. \A n : RanFirst(Command, n)' <=> RanFirst(Command, n)
  BY <1>3 DEF RanFirst, chainVars
<1>7. ASSUME NEW tx, tx.command = Command
      PROVE  (Whole(tx)' <=> Whole(tx)) /\ (Due(tx)' <=> Due(tx)) /\ (Done(tx)' <=> Done(tx))
  <2>1. /\ DOMAIN CallsOf(tx.command)' = DOMAIN CallsOf(tx.command)
        /\ Len(CallsOf(tx.command))' = Len(CallsOf(tx.command))
        /\ ran'[tx.command] = ran[tx.command]
    BY <1>3, <1>4, <1>7 DEF CallsOf, chainVars
  <2>2. Whole(tx)' <=> Whole(tx)
    BY <2>1 DEF Whole
  <2>3. \A n : RanFirst(tx.command, n)' <=> RanFirst(tx.command, n)
    BY <2>1 DEF RanFirst
  <2> QED
    BY <2>1, <2>2, <2>3 DEF Due, Done
<1> QED
  BY <1>1, <1>5, <1>6, <1>7

LEMMA AskKeeps == ASSUME IInv, NEW yes \in BOOLEAN, Ask(yes) PROVE IInv'
<1> DEFINE e == [Current EXCEPT !.yes = @ \cup {"plan"}]
<1>1. pc = "ask" /\ UNCHANGED <<chainVars, pool>> /\ WantBroadcast(yes)
  BY DEF Ask
<1>2. CASE ~yes
  BY <1>1, <1>2, EndKeeps DEF Reports, Ask
<1>3. CASE yes
  <2>1. /\ log' = [log EXCEPT ![Command] = e] /\ queue' = queue
        /\ pc' = IF Job.kind = "publish" THEN "refresh" ELSE "plan"
    BY <1>3 DEF Ask, Current
  <2>2. Command > 0 /\ log \in Seq(Entry) /\ Current \in Entry
    BY <1>1, CurrentHas
  <2>3. /\ e \in Entry /\ EntryKeeps(Current, e) /\ e.report = Current.report
        /\ "plan" \in e.yes /\ e.job = Current.job
    BY <2>2 DEF Entry, EntryKeeps
  <2> HIDE DEF e
  <2>4. LogKeeps /\ Command' = Command /\ Current' = e /\ Job' = Job
    BY <2>1, <2>2, <2>3, LogUpdate DEF Job
  <2>5. Job.interactive \/ Job.broadcast
    BY <1>1, <1>3, <2>2 DEF WantBroadcast, Entry, AnyJob, Job
  <2>6. Sent(Command)' = {} /\ RanFirst(Command, 0)'
    BY <1>1, <2>4, SameCommand DEF IInv, Going, Started
  <2>7. Going'
    BY <2>1, <2>2, <2>3, <2>4, <2>5, <2>6 DEF Going, Started, AfterAsk
  <2>8. queue' \in Seq({queue'[i] : i \in DOMAIN queue'}) /\ queue' = <<>>
    BY <1>1, <2>1 DEF IInv, Shapes, TypeOK
  <2> QED
    BY <1>1, <2>1, <2>3, <2>7, <2>8, UpdateKeeps DEF Places, Queueing
<1> QED
  BY <1>2, <1>3

LEMMA RefreshKeeps == ASSUME IInv, RefreshBalance PROVE IInv'
<1> DEFINE e == [Current EXCEPT !.seen = balance]
<1>1. /\ pc = "refresh" /\ pc' = "plan" /\ UNCHANGED <<chainVars, pool, queue>>
      /\ log' = [log EXCEPT ![Command] = e]
  BY DEF RefreshBalance, Current
<1>2. Command > 0 /\ log \in Seq(Entry) /\ Current \in Entry
  BY <1>1, CurrentHas
<1>3. /\ e \in Entry /\ EntryKeeps(Current, e) /\ e.report = Current.report
      /\ e.yes = Current.yes /\ e.job = Current.job
  BY <1>2 DEF Entry, EntryKeeps, IInv, TypeOK
<1> HIDE DEF e
<1>4. LogKeeps /\ Command' = Command /\ Current' = e /\ Job' = Job
  BY <1>1, <1>2, <1>3, LogUpdate DEF Job
<1>5. Sent(Command)' = {} /\ RanFirst(Command, 0)'
  BY <1>1, <1>4, SameCommand DEF IInv, Going, Started
<1>6. Going'
  BY <1>1, <1>2, <1>3, <1>4, <1>5 DEF Going, Started, AfterAsk, IInv
<1>7. queue' \in Seq({queue'[i] : i \in DOMAIN queue'}) /\ queue' = <<>>
  BY <1>1 DEF IInv, Shapes, TypeOK
<1> QED
  BY <1>1, <1>3, <1>6, <1>7, UpdateKeeps DEF Places, Queueing

(* Queues: one transaction with all calls, or one for each call.            *)
LEMMA OneTx ==
    ASSUME NEW tx
    PROVE  /\ <<tx>> # <<>> /\ Len(<<tx>>) = 1 /\ <<tx>>[1] = tx
           /\ <<tx>> \in Seq({<<tx>>[i] : i \in DOMAIN <<tx>>})
OBVIOUS

LEMMA WholeQueue ==
    ASSUME NEW n
    PROVE  AllInOne(<<Tx(AllCalls, n)>>)
BY OneTx DEF AllInOne, Tx, Whole, AllCalls, CallsOf, Job, Current

LEMMA SplitQueue ==
    ASSUME IInv, pc # "idle", NEW n, Job.calls # <<>>
    PROVE  /\ EoaSequence(n) # <<>> /\ Len(EoaSequence(n)) = Len(Job.calls)
           /\ OneByOne(EoaSequence(n))
           /\ EoaSequence(n) \in Seq({EoaSequence(n)[i] : i \in DOMAIN EoaSequence(n)})
<1> DEFINE q == EoaSequence(n)
           N == Len(Job.calls)
<1>1. N \in Nat /\ DOMAIN Job.calls = 1 .. N /\ N # 0
  BY CurrentHas
<1> HIDE DEF N
<1>2. q = [i \in 1 .. N |-> Tx(<<i>>, n + i - 1)]
  BY <1>1 DEF EoaSequence
<1>3. \A i \in 1 .. N : q[i].command = Command /\ q[i].calls = <<i>>
  BY <1>2 DEF Tx
<1>4. DOMAIN q = 1 .. N
  BY <1>2
<1>5. q \in [1 .. N -> {q[i] : i \in DOMAIN q}]
  BY <1>2, <1>4
<1> HIDE DEF q
<1>6. q \in Seq({q[i] : i \in DOMAIN q}) /\ Len(q) = N /\ q # <<>>
  BY <1>1, <1>4, <1>5
<1>7. OneByOne(q)
  BY <1>1, <1>3, <1>6 DEF OneByOne, N
<1> QED
  BY <1>6, <1>7 DEF q, N

(* A command that has sent nothing is ready to send its queue.              *)
LEMMA ToSend ==
    ASSUME IInv, pc \in {"plan", "simulate", "ask_split"}, LogKeeps, Command' = Command,
           UNCHANGED <<chainVars, pool>>, pc' = "send",
           queue' # <<>>, queue' \in Seq({queue'[i] : i \in DOMAIN queue'}),
           "plan" \in Current'.yes, Job'.interactive \/ Job'.broadcast,
           \/ AllInOne(queue')
           \/ OneByOne(queue') /\ Len(queue') = Len(Job.calls) /\ "split" \in Current'.yes
    PROVE  Going'
<1>1. /\ Sent(Command) = {} /\ RanFirst(Command, 0) /\ Command > 0
      /\ Command \in 1 .. Command /\ Len(Job.calls) \in Nat
  BY CurrentHas DEF IInv, Going, Started
<1>2. Sent(Command)' = {} /\ RanFirst(Command, 0)' /\ Len(Job.calls)' = Len(Job.calls)
  BY <1>1, SameCommand
<1>3. NonePending' /\ Unsent(queue, 1)'
  BY <1>2 DEF Sent, NonePending, Unsent
<1>4. Head(queue') = queue'[1] /\ Len(queue') \in Nat \ {0}
  OBVIOUS
<1>5. /\ DOMAIN CallsOf(Command)' = DOMAIN CallsOf(Command)
  BY <1>1, SameCalls DEF IInv, CallsOf
<1>6. CASE AllInOne(queue')
  <2>1. Len(queue') = 1 /\ queue'[1].command = Command'
        /\ queue'[1].calls = [i \in DOMAIN CallsOf(Command)' |-> i]
    BY <1>5, <1>6 DEF AllInOne, Whole, CallsOf
  <2>2. AllInOne(queue)'
    BY <2>1 DEF AllInOne, Whole, CallsOf
  <2>3. Due(Head(queue))'
    BY <1>2, <1>4, <2>1 DEF Due, Whole, RanFirst, CallsOf
  <2> QED
    BY <1>1, <1>3, <2>2, <2>3 DEF Going, Started, AfterAsk
<1>7. CASE OneByOne(queue') /\ Len(queue') = Len(Job.calls) /\ "split" \in Current'.yes
  <2>1. OneByOne(queue)'
    BY <1>2, <1>7 DEF OneByOne
  <2>2. queue'[1].command = Command' /\ queue'[1].calls = <<1>>
    BY <1>1, <1>4, <1>7 DEF OneByOne
  <2>3. Due(Head(queue))'
    BY <1>2, <1>4, <2>2 DEF Due, RanFirst, CallsOf
  <2> QED
    BY <1>1, <1>3, <1>7, <2>1, <2>3 DEF Going, Started, AfterAsk
<1> QED
  BY <1>6, <1>7

(* What SendIfPaid does, when it does not end the command.                  *)
LEMMA QueueKeeps ==
    ASSUME IInv, pc \in {"plan", "simulate"}, log' = log, UNCHANGED <<chainVars, pool>>,
           queue' # <<>>, queue' \in Seq({queue'[i] : i \in DOMAIN queue'}),
           \/ AllInOne(queue') /\ pc' = "send"
           \/ AllInOne(queue') /\ pc' = "simulate" /\ Len(Job.calls) > 1
           \/ OneByOne(queue') /\ pc' = "ask_split" /\ Len(queue') = Len(Job.calls)
    PROVE  IInv'
<1>1. /\ Command > 0 /\ log \in Seq(Entry) /\ Current \in Entry
      /\ Current = log[Command] /\ Command \in 1 .. Command
  BY CurrentHas
<1>2. /\ LogKeeps /\ Command' = Command /\ Current' = Current /\ Job' = Job
      /\ \A c \in 1 .. Command : log'[c] = log[c]
  BY <1>1, LogUnchanged
<1>3. /\ "plan" \in Current'.yes /\ (Job'.interactive \/ Job'.broadcast)
      /\ Sent(Command)' = {} /\ RanFirst(Command, 0)'
  BY <1>2, SameCommand DEF IInv, Going, Started, AfterAsk
<1>4. Going'
  <2>1. CASE AllInOne(queue') /\ pc' = "send"
    BY <1>2, <1>3, <2>1, ToSend
  <2>2. CASE AllInOne(queue') /\ pc' = "simulate" /\ Len(Job.calls) > 1
    <3>1. AllInOne(queue)'
      BY <1>2, <2>2 DEF AllInOne, Whole, CallsOf
    <3> QED
      BY <1>1, <1>2, <1>3, <2>2, <3>1 DEF Going, Started, AfterAsk
  <2>3. CASE OneByOne(queue') /\ pc' = "ask_split" /\ Len(queue') = Len(Job.calls)
    <3>1. OneByOne(queue)' /\ Len(queue') = Len(Job'.calls)
      BY <1>2, <2>3 DEF OneByOne
    <3> QED
      BY <1>1, <1>2, <1>3, <2>3, <3>1 DEF Going, Started, AfterAsk
  <2> QED
    BY <2>1, <2>2, <2>3
<1>5. log' = [log EXCEPT ![Command] = Current]
  BY <1>1
<1>6. EntryKeeps(Current, Current)
  BY DEF EntryKeeps
<1> QED
  BY <1>1, <1>4, <1>5, <1>6, UpdateKeeps DEF Places, Queueing

LEMMA PlanKeeps == ASSUME IInv, Plan PROVE IInv'
<1>1. pc = "plan" /\ UNCHANGED <<chainVars, pool>>
  BY DEF Plan
<1>2. PICK n : IF ~Job.smart /\ Len(Job.calls) > 1
               THEN queue' = <<Tx(AllCalls, n)>> /\ pc' = "simulate" /\ log' = log
               ELSE SendIfPaid(<<Tx(AllCalls, n)>>, "send")
  BY DEF Plan
<1>3. CASE End("failed")
  BY <1>1, <1>3, EndKeeps DEF Reports
<1>4. CASE queue' = <<Tx(AllCalls, n)>> /\ log' = log
           /\ (pc' = "send" \/ (pc' = "simulate" /\ Len(Job.calls) > 1))
  BY <1>1, <1>4, OneTx, WholeQueue, QueueKeeps
<1> QED
  BY <1>2, <1>3, <1>4 DEF SendIfPaid

LEMMA SimulateKeeps == ASSUME IInv, NEW rejected \in BOOLEAN, Simulate(rejected) PROVE IInv'
<1>1. pc = "simulate" /\ UNCHANGED <<chainVars, pool>>
  BY DEF Simulate
<1>2. CASE End("failed")
  BY <1>1, <1>2, EndKeeps DEF Reports
<1>3. AllInOne(queue) /\ Len(Job.calls) > 1
  BY <1>1 DEF IInv, Going
<1>4. ASSUME ~rejected, queue' = queue, pc' = "send", log' = log  PROVE IInv'
  <2>1. queue # <<>> /\ queue \in Seq({queue[i] : i \in DOMAIN queue})
    BY <1>1 DEF IInv, TypeOK, Shapes
  <2> QED
    BY <1>1, <1>3, <1>4, <2>1, QueueKeeps
<1>5. ASSUME rejected, NEW n, queue' = EoaSequence(n), pc' = "ask_split", log' = log
      PROVE  IInv'
  <2>1. Job.calls # <<>>
    BY <1>3, EmptySeq
  <2> QED
    BY <1>1, <1>5, <2>1, SplitQueue, QueueKeeps
<1> QED
  BY <1>2, <1>4, <1>5 DEF Simulate, SendIfPaid

LEMMA AskSplitKeeps == ASSUME IInv, NEW yes \in BOOLEAN, AskSplit(yes) PROVE IInv'
<1> DEFINE e == [Current EXCEPT !.yes = @ \cup {"split"}]
<1>1. pc = "ask_split" /\ UNCHANGED <<chainVars, pool>>
  BY DEF AskSplit
<1>2. CASE ~yes
  BY <1>1, <1>2, EndKeeps DEF Reports, AskSplit
<1>3. CASE yes
  <2>1. log' = [log EXCEPT ![Command] = e] /\ queue' = queue /\ pc' = "send"
    BY <1>3 DEF AskSplit, Current
  <2>2. Command > 0 /\ log \in Seq(Entry) /\ Current \in Entry
    BY <1>1, CurrentHas
  <2>3. /\ e \in Entry /\ EntryKeeps(Current, e) /\ e.report = Current.report
        /\ "split" \in e.yes /\ Current.yes \subseteq e.yes /\ e.job = Current.job
    BY <2>2 DEF Entry, EntryKeeps
  <2> HIDE DEF e
  <2>4. LogKeeps /\ Command' = Command /\ Current' = e /\ Job' = Job
    BY <2>1, <2>2, <2>3, LogUpdate DEF Job
  <2>5. queue # <<>> /\ queue \in Seq({queue[i] : i \in DOMAIN queue})
    BY <1>1 DEF IInv, TypeOK, Shapes
  <2>6. Going'
    <3>1. OneByOne(queue) /\ Len(queue) = Len(Job.calls) /\ "plan" \in Current.yes
          /\ (Job.interactive \/ Job.broadcast)
      BY <1>1 DEF IInv, Going, AfterAsk
    <3> QED
      BY <1>1, <2>1, <2>3, <2>4, <2>5, <3>1, ToSend
  <2> QED
    BY <1>1, <2>1, <2>3, <2>5, <2>6, UpdateKeeps DEF Places, Queueing
<1> QED
  BY <1>2, <1>3

-----------------------------------------------------------------------------
(* Sending.                                                                 *)

(* The first of the queue, while it is due, can join what was sent.         *)
LEMMA HeadIsFit ==
    ASSUME IInv, pc \in {"send", "wait"}
    PROVE  /\ Head(queue) = queue[1] /\ Len(queue) \in Nat \ {0}
           /\ Head(queue).command = Command
           /\ Fit(Head(queue)) /\ Agreed(Head(queue))
<1>1. queue # <<>> /\ queue \in Seq({queue[i] : i \in DOMAIN queue})
  BY DEF IInv, TypeOK, Shapes
<1>2. Head(queue) = queue[1] /\ Len(queue) \in Nat \ {0}
  BY <1>1
<1>3. /\ Command \in 1 .. Command /\ Current = log[Command] /\ Job.calls = CallsOf(Command)
      /\ Len(Job.calls) \in Nat /\ DOMAIN Job.calls = 1 .. Len(Job.calls)
      /\ Job.calls \in Seq(Call)
  BY CurrentHas
<1>4. "plan" \in Current.yes /\ (Job.interactive \/ Job.broadcast)
      /\ (AllInOne(queue) \/ (OneByOne(queue) /\ "split" \in Current.yes))
  BY DEF IInv, Going, AfterAsk
<1>5. CASE AllInOne(queue)
  <2>1. queue[1].command = Command /\ Whole(queue[1])
    BY <1>5 DEF AllInOne
  <2>2. queue[1].calls = [i \in 1 .. Len(Job.calls) |-> i]
    BY <1>3, <2>1 DEF Whole
  <2>3. Len(queue[1].calls) = Len(Job.calls)
    BY <1>3, <2>2
  <2> QED
    BY <1>2, <1>3, <1>4, <2>1, <2>3 DEF Fit, Agreed, Job
<1>6. CASE OneByOne(queue) /\ "split" \in Current.yes
  <2>1. /\ queue[1].command = Command /\ Len(queue) <= Len(Job.calls)
        /\ queue[1].calls = <<Len(Job.calls) - Len(queue) + 1>>
    BY <1>2, <1>6 DEF OneByOne
  <2>2. Len(Job.calls) - Len(queue) + 1 \in DOMAIN CallsOf(Command)
    BY <1>2, <1>3, <2>1
  <2> QED
    BY <1>2, <1>3, <1>4, <1>6, <2>1, <2>2 DEF Fit, Agreed, Job
<1> QED
  BY <1>4, <1>5, <1>6

LEMMA SendAdds ==
    ASSUME IInv, pc = "send", LogKeeps, Command' = Command, UNCHANGED chainVars,
           pool' = pool \cup {Head(queue)}
    PROVE  TxInv' /\ pool' \cap DOMAIN landed = {} /\ Head(queue) \notin DOMAIN landed
<1> DEFINE h == Head(queue)
<1>1. /\ h = queue[1] /\ Len(queue) \in Nat \ {0} /\ h.command = Command
      /\ Fit(h) /\ Agreed(h) /\ Due(h)
  BY HeadIsFit DEF IInv, Going
<1>2. NonePending /\ Unsent(queue, 1)
  BY DEF IInv, Going
<1> HIDE DEF h
<1>3. \A tx \in pool \cup DOMAIN landed \cup {h} : Fit(tx) /\ Agreed(tx)
  BY <1>1 DEF IInv, TxInv
<1>4. \A tx \in pool \cup {h} : Due(tx) /\ Fit(tx)
  BY <1>1, <1>3 DEF IInv, TxInv
<1>5. /\ \A tx \in pool' \cup DOMAIN landed' : Fit(tx)' /\ Agreed(tx)'
      /\ \A tx \in pool' : Due(tx)'
  BY <1>3, <1>4, TxSame DEF IInv, chainVars, h
<1>6. \A t, u \in pool' : t.command = u.command => t = u
  BY <1>1, <1>2 DEF IInv, TxInv, NonePending, h
<1>7. RanInOrder'
  <2>1. \A c \in Command + 1 .. Command' : RanFirst(c, 0)'
    BY LogHas DEF IInv, Shapes
  <2> QED
    BY <2>1, RanKeeps DEF IInv, TxInv, chainVars
<1>8. h \notin DOMAIN landed
  BY <1>1, <1>2 DEF Unsent, Sent
<1> QED
  BY <1>5, <1>6, <1>7, <1>8 DEF TxInv, IInv, TypeOK, h

(* No two transactions of a queue carry the same calls.                     *)
LEMMA QueueDiffers ==
    ASSUME IInv, pc \in {"send", "wait"}, NEW i \in 2 .. Len(queue)
    PROVE  queue[1].calls # queue[i].calls
<1>1. Len(queue) \in Nat \ {0} /\ Len(Job.calls) \in Nat
  BY HeadIsFit, CurrentHas
<1>2. OneByOne(queue)
  <2>1. Len(queue) # 1
    <3>1. ASSUME NEW n \in Nat, i \in 2 .. n  PROVE n # 1
      BY <3>1
    <3> QED
      BY <1>1, <3>1
  <2>2. AllInOne(queue) \/ OneByOne(queue)
    BY DEF IInv, Going
  <2> QED
    BY <2>1, <2>2 DEF AllInOne
<1>3. /\ queue[1].calls = <<Len(Job.calls) - Len(queue) + 1>>
      /\ queue[i].calls = <<Len(Job.calls) - Len(queue) + i>>
  BY <1>1, <1>2 DEF OneByOne
<1>4. \A a, b : <<a>> = <<b>> => a = b
  OBVIOUS
<1> QED
  BY <1>1, <1>3, <1>4

LEMMA SendKeeps == ASSUME IInv, Send PROVE IInv'
<1>1. /\ pc = "send" /\ pool' = pool \cup {Head(queue)} /\ pc' = "wait"
      /\ UNCHANGED <<chainVars, log, queue>>
  BY DEF Send
<1>2. /\ Command \in 1 .. Command /\ Command > 0 /\ log \in Seq(Entry)
      /\ Current.report = "none"
  BY <1>1, CurrentHas
<1>3. /\ LogKeeps /\ Command' = Command /\ Current' = Current /\ Job' = Job
      /\ \A c \in 1 .. Command : log'[c] = log[c]
  BY <1>1, <1>2, LogUnchanged
<1>4. TxInv' /\ pool' \cap DOMAIN landed = {} /\ Head(queue) \notin DOMAIN landed
  BY <1>1, <1>3, SendAdds
<1>5. Head(queue) = queue[1] /\ Head(queue).command = Command
  BY <1>1, HeadIsFit
<1>6. Unsent(queue, 2)'
  <2>1. Sent(Command)' = Sent(Command) \cup {Head(queue)}
    BY <1>1, <1>3, <1>5 DEF Sent, chainVars
  <2>2. Unsent(queue, 1) /\ Len(queue) \in Nat
    BY <1>1, HeadIsFit DEF IInv, Going
  <2>3. \A tx \in Sent(Command) : \A i \in 2 .. Len(queue) : tx.calls # queue[i].calls
    BY <2>2 DEF Unsent
  <2>4. \A i \in 2 .. Len(queue) : Head(queue).calls # queue[i].calls
    BY <1>1, <1>5, QueueDiffers
  <2> QED
    BY <1>1, <2>1, <2>3, <2>4 DEF Unsent
<1>7. \A tx \in pool' : tx.command = Command' => tx = Head(queue')
  BY <1>1, <1>3 DEF IInv, Going, NonePending
<1>8. AllInOne(queue)' \/ (OneByOne(queue)' /\ "split" \in Current'.yes)
  <2>1. AllInOne(queue) \/ (OneByOne(queue) /\ "split" \in Current.yes)
    BY <1>1 DEF IInv, Going
  <2>2. AllInOne(queue)' <=> AllInOne(queue)
    BY <1>1, <1>3 DEF AllInOne, Whole, CallsOf
  <2>3. OneByOne(queue)' <=> OneByOne(queue)
    BY <1>1, <1>3 DEF OneByOne
  <2> QED
    BY <1>3, <2>1, <2>2, <2>3
<1>9. "plan" \in Current'.yes /\ (Job'.interactive \/ Job'.broadcast)
  BY <1>1, <1>3 DEF IInv, Going, AfterAsk
<1>10. Going'
  BY <1>1, <1>2, <1>3, <1>4, <1>6, <1>7, <1>8, <1>9 DEF Going, Started, AfterAsk, chainVars
<1>11. queue # <<>> /\ queue \in Seq({queue[i] : i \in DOMAIN queue})
  BY <1>1 DEF IInv, TypeOK, Shapes
<1> QED
  BY <1>1, <1>2, <1>3, <1>4, <1>10, <1>11, StepKeeps DEF Places, Queueing

LEMMA SendUnansweredKeeps == ASSUME IInv, SendUnanswered PROVE IInv'
<1>1. /\ pc = "send" /\ pool' = pool \cup {Head(queue)} /\ End("failed")
      /\ UNCHANGED chainVars
  BY DEF SendUnanswered
<1> QED
  BY <1>1, SendAdds, EndsKeeps DEF Reports

-----------------------------------------------------------------------------
(* Waiting.                                                                 *)

LEMMA TailHas ==
    ASSUME NEW q, q \in Seq({q[i] : i \in DOMAIN q}), q # <<>>
    PROVE  /\ Len(q) \in Nat \ {0} /\ Len(Tail(q)) = Len(q) - 1
           /\ Tail(q) \in Seq({Tail(q)[i] : i \in DOMAIN Tail(q)})
           /\ \A i \in 1 .. Len(q) - 1 : Tail(q)[i] = q[i + 1]
           /\ Len(q) = 1 <=> Tail(q) = <<>>
           /\ Tail(q) # <<>> => Head(Tail(q)) = q[2]
<1> DEFINE S == {q[i] : i \in DOMAIN q}
           t == Tail(q)
<1>1. /\ Len(q) \in Nat \ {0} /\ Len(t) = Len(q) - 1 /\ t \in Seq(S)
      /\ \A i \in 1 .. Len(q) - 1 : t[i] = q[i + 1]
  BY HeadTailProperties, EmptySeq
<1>2. t # <<>> => Head(t) = t[1] /\ Len(t) \in Nat \ {0}
  BY <1>1, EmptySeq
<1>3. Len(q) = 1 <=> t = <<>>
  <2> HIDE DEF t, S
  <2>1. Len(<<>>) = 0
    OBVIOUS
  <2>2. t = <<>> => Len(q) = 1
    BY <1>1, <2>1
  <2>3. Len(q) = 1 => Len(t) = 0
    BY <1>1
  <2> QED
    BY <1>2, <2>2, <2>3
<1>4. t \in [1 .. Len(t) -> {t[i] : i \in DOMAIN t}] /\ Len(t) \in Nat
  <2> HIDE DEF t
  <2> QED
    BY <1>1, LenProperties
<1>5. t \in Seq({t[i] : i \in DOMAIN t})
  <2> HIDE DEF t
  <2> QED
    BY <1>4
<1>6. t # <<>> => Head(t) = q[2]
  BY <1>1, <1>2
<1> QED
  BY <1>1, <1>3, <1>5, <1>6

(* What a good receipt means.                                               *)
LEMMA ReceiptMeans ==
    ASSUME IInv, pc = "wait", Head(queue) \in DOMAIN landed, landed[Head(queue)].frames
    PROVE  /\ NonePending
           /\ Len(queue) = 1 => RanFirst(Command, Len(Job.calls))
           /\ Len(queue) > 1 =>
                /\ OneByOne(queue) /\ "split" \in Current.yes
                /\ RanFirst(Command, Len(Job.calls) - Len(queue) + 1)
<1>1. /\ Head(queue) = queue[1] /\ Len(queue) \in Nat \ {0} /\ queue[1].command = Command
      /\ Job.calls = CallsOf(Command) /\ Len(Job.calls) \in Nat
      /\ DOMAIN Job.calls = 1 .. Len(Job.calls)
  BY HeadIsFit, CurrentHas
<1>2. Done(queue[1])
  BY <1>1 DEF IInv, Going
<1>3. NonePending
  BY DEF IInv, Going, TypeOK, NonePending
<1>4. ASSUME OneByOne(queue)
      PROVE  RanFirst(Command, Len(Job.calls) - Len(queue) + 1)
  <2> DEFINE N == Len(Job.calls)
             k == N - Len(queue) + 1
  <2>1. queue[1].calls = <<k>> /\ Len(queue) <= N
    BY <1>1, <1>4 DEF OneByOne
  <2>2. CASE ~Whole(queue[1])
    BY <1>1, <1>2, <2>1, <2>2 DEF Done
  <2>3. CASE Whole(queue[1])
    <3>1. <<k>> = [i \in 1 .. N |-> i]
      BY <1>1, <2>1, <2>3 DEF Whole
    <3>2. N = 1
      <4> HIDE DEF N, k
      <4>1. Len(<<k>>) = 1 /\ N \in Nat
        BY <1>1 DEF N
      <4>2. Len([i \in 1 .. N |-> i]) = N
        BY <4>1
      <4> QED
        BY <3>1, <4>1, <4>2
    <3>3. k = N
      <4>1. Len(queue) = 1
        <5>1. \A a \in Nat \ {0} : a <= 1 => a = 1
          OBVIOUS
        <5> QED
          BY <1>1, <2>1, <3>2, <5>1
      <4> QED
        BY <1>1, <4>1
    <3> QED
      BY <1>1, <1>2, <2>3, <3>3 DEF Done
  <2> QED
    BY <2>2, <2>3
<1>5. ASSUME AllInOne(queue)  PROVE RanFirst(Command, Len(Job.calls)) /\ Len(queue) = 1
  BY <1>1, <1>2, <1>5 DEF AllInOne, Done
<1>6. AllInOne(queue) \/ (OneByOne(queue) /\ "split" \in Current.yes)
  BY DEF IInv, Going
<1>7. Len(queue) = 1 => Len(Job.calls) - Len(queue) + 1 = Len(Job.calls)
  BY <1>1
<1> QED
  BY <1>1, <1>3, <1>4, <1>5, <1>6, <1>7

LEMMA ReceiptKeeps == ASSUME IInv, Receipt PROVE IInv'
<1> DEFINE h == Head(queue)
           rest == Tail(queue)
           N == Len(Job.calls)
<1>1. pc = "wait" /\ h \in DOMAIN landed /\ UNCHANGED <<chainVars, pool>>
  BY DEF Receipt
<1>2. \/ \E report \in {"ok", "failed"} : End(report)
      \/ /\ ReceiptAllOk(landed[h]) /\ queue' = rest /\ log' = log
         /\ \/ rest # <<>> /\ pc' = "send"
            \/ rest = <<>> /\ pc' = "confirm"
  BY DEF Receipt
<1>3. CASE \E report \in {"ok", "failed"} : End(report)
  BY <1>1, <1>3, EndKeeps DEF Reports
<1>4. /\ Command \in 1 .. Command /\ Command > 0 /\ log \in Seq(Entry)
      /\ Current.report = "none" /\ N \in Nat
  BY <1>1, CurrentHas
<1>5. queue # <<>> /\ queue \in Seq({queue[i] : i \in DOMAIN queue})
  BY <1>1 DEF IInv, TypeOK, Shapes
<1>6. ASSUME ReceiptAllOk(landed[h]), queue' = rest, log' = log,
             \/ rest # <<>> /\ pc' = "send"
             \/ rest = <<>> /\ pc' = "confirm"
      PROVE  IInv'
  <2>1. /\ LogKeeps /\ Command' = Command /\ Current' = Current /\ Job' = Job
        /\ \A c \in 1 .. Command : log'[c] = log[c]
    BY <1>4, <1>6, LogUnchanged
  <2>2. TxInv' /\ pool' \cap DOMAIN landed = {}
    BY <1>1, <2>1, QuietKeeps
  <2>3. /\ NonePending' /\ Sent(Command)' = Sent(Command)
        /\ \A n : RanFirst(Command, n)' <=> RanFirst(Command, n)
    BY <1>1, <1>6, <2>1, ReceiptMeans, SameCommand DEF ReceiptAllOk
  <2>4. /\ Len(queue) \in Nat \ {0} /\ Len(rest) = Len(queue) - 1
        /\ \A i \in 1 .. Len(queue) - 1 : rest[i] = queue[i + 1]
        /\ Len(queue) = 1 <=> rest = <<>>
        /\ rest # <<>> => Head(rest) = queue[2]
        /\ rest \in Seq({rest[i] : i \in DOMAIN rest})
    BY <1>5, TailHas
  <2> HIDE DEF rest
  <2>5. CASE rest = <<>> /\ pc' = "confirm"
    <3>1. RanFirst(Command, N)' /\ Len(Job.calls)' = N
      BY <1>1, <1>6, <2>1, <2>3, <2>4, <2>5, ReceiptMeans DEF ReceiptAllOk
    <3>2. Going'
      BY <1>4, <2>1, <2>3, <2>5, <3>1 DEF Going, Started, AfterAsk
    <3> QED
      BY <1>1, <1>4, <1>6, <2>1, <2>2, <2>4, <2>5, <3>2, StepKeeps DEF Places, Queueing
  <2>6. CASE rest # <<>> /\ pc' = "send"
    <3>1. /\ OneByOne(queue) /\ "split" \in Current.yes /\ Len(queue) > 1
          /\ RanFirst(Command, N - Len(queue) + 1)
      BY <1>1, <1>6, <2>4, <2>6, ReceiptMeans DEF ReceiptAllOk
    <3>2. OneByOne(queue)' /\ "split" \in Current'.yes
      <4>1. ASSUME NEW i \in 1 .. Len(rest)
            PROVE  rest[i].command = Command /\ rest[i].calls = <<N - Len(rest) + i>>
        <5>1. i + 1 \in 1 .. Len(queue) /\ rest[i] = queue[i + 1]
          BY <2>4
        <5>2. /\ rest[i].command = Command
              /\ rest[i].calls = <<N - Len(queue) + (i + 1)>>
          BY <3>1, <5>1 DEF OneByOne
        <5>3. N - Len(queue) + (i + 1) = N - Len(rest) + i
          <6>1. \A a, b, c \in Int : a - b + (c + 1) = a - (b - 1) + c
            OBVIOUS
          <6>2. i \in Int
            OBVIOUS
          <6>3. N \in Int /\ Len(queue) \in Int /\ Len(rest) = Len(queue) - 1
            BY <1>4, <2>4
          <6> HIDE DEF N
          <6>4. N - Len(queue) + (i + 1) = N - (Len(queue) - 1) + i
            BY <6>1, <6>2, <6>3
          <6> QED
            BY <6>3, <6>4
        <5> QED
          BY <5>2, <5>3
      <4>2. Len(rest) <= N
        BY <1>4, <2>4, <3>1 DEF OneByOne
      <4> QED
        BY <1>6, <2>1, <3>1, <4>1, <4>2 DEF OneByOne
    <3>3. Unsent(queue, 1)'
      <4>1. Unsent(queue, 2)
        BY <1>1 DEF IInv, Going
      <4>2. ASSUME NEW i \in 1 .. Len(rest)
            PROVE  i + 1 \in 2 .. Len(queue) /\ rest[i] = queue[i + 1]
        BY <2>4
      <4> QED
        BY <1>6, <2>3, <4>1, <4>2 DEF Unsent
    <3>4. Due(Head(queue))'
      <4>1. queue[2].command = Command /\ queue[2].calls = <<N - Len(queue) + 2>> /\ N >= 2
        BY <1>4, <2>4, <3>1 DEF OneByOne
      <4>2. ~Whole(queue[2])
        <5> SUFFICES ASSUME <<N - Len(queue) + 2>> = [i \in 1 .. N |-> i]  PROVE FALSE
          BY <1>1, <4>1, CurrentHas DEF Whole
        <5> HIDE DEF N
        <5>1. \A k : Len(<<k>>) = 1
          OBVIOUS
        <5>2. Len([i \in 1 .. N |-> i]) = N
          BY <1>4
        <5> QED
          BY <1>4, <4>1, <5>1, <5>2
      <4>3. Due(queue[2])
        BY <1>4, <2>4, <3>1, <4>1, <4>2 DEF Due
      <4>4. queue' # <<>> /\ Head(queue') = queue[2]
        BY <1>6, <2>4, <2>6
      <4> QED
        BY <1>1, <2>1, <4>1, <4>3, <4>4, SameCommand
    <3>5. "plan" \in Current'.yes /\ (Job'.interactive \/ Job'.broadcast)
      BY <1>1, <2>1 DEF IInv, Going, AfterAsk
    <3>6. Going'
      BY <1>4, <2>1, <2>3, <2>6, <3>2, <3>3, <3>4, <3>5 DEF Going, Started, AfterAsk
    <3> QED
      BY <1>1, <1>4, <1>6, <2>1, <2>2, <2>4, <2>6, <3>6, StepKeeps DEF Places, Queueing
  <2> QED
    BY <1>6, <2>5, <2>6
<1> QED
  BY <1>2, <1>3, <1>6

LEMMA ConfirmKeeps == ASSUME IInv, Confirm PROVE IInv'
<1>1. /\ pc = "confirm" /\ UNCHANGED <<chainVars, pool>>
      /\ \E report \in {"ok", "failed"} : End(report)
  BY DEF Confirm
<1> QED
  BY <1>1, EndKeeps DEF Reports

LEMMA GiveUpKeeps == ASSUME IInv, GiveUp PROVE IInv'
<1>1. pc # "idle" /\ UNCHANGED <<chainVars, pool>> /\ End("failed")
  BY DEF GiveUp
<1> QED
  BY <1>1, EndKeeps DEF Reports

LEMMA FailKeeps == ASSUME IInv, Fail PROVE IInv'
<1>1. pc # "idle" /\ UNCHANGED <<chainVars, pool>> /\ End("failed")
  BY DEF Fail
<1> QED
  BY <1>1, EndKeeps DEF Reports

-----------------------------------------------------------------------------
(* The chain.                                                               *)

(* With the same log and receipts the rest can only be forgotten.           *)
LEMMA ForgetKeeps ==
    ASSUME IInv, UNCHANGED <<landed, ran, log, pc, queue>>, pool' \subseteq pool
    PROVE  Shapes' /\ TxInv' /\ Going' /\ pool' \cap DOMAIN landed' = {}
<1>1. Shapes'
  BY DEF IInv, Shapes
<1>2. /\ LogKeeps /\ Command' = Command /\ Current' = Current /\ Job' = Job
  BY LogUnchanged DEF IInv, Shapes
<1>3. TxInv'
  <2>1. \A c \in Command + 1 .. Command' : RanFirst(c, 0)'
    BY <1>2, LogHas DEF IInv, Shapes
  <2> QED
    BY <1>2, <2>1, TxKeeps DEF IInv
<1>4. Sent(Command)' \subseteq Sent(Command) /\ (NonePending => NonePending')
  BY <1>2 DEF Sent, NonePending
<1>5. /\ \A n : RanFirst(Command, n)' <=> RanFirst(Command, n)
      /\ AllInOne(queue)' <=> AllInOne(queue)
      /\ OneByOne(queue)' <=> OneByOne(queue)
      /\ Due(Head(queue))' <=> Due(Head(queue))
      /\ Done(Head(queue))' <=> Done(Head(queue))
  BY <1>2 DEF RanFirst, CallsOf, AllInOne, OneByOne, Due, Done, Whole
<1>6. \A i : (Unsent(queue, i) => Unsent(queue, i)')
  BY <1>4 DEF Unsent
<1>7. Going'
  BY <1>2, <1>4, <1>5, <1>6 DEF IInv, Going, Started, AfterAsk
<1> QED
  BY <1>1, <1>3, <1>7 DEF IInv, TypeOK

LEMMA DropKeeps == ASSUME IInv, NEW tx \in pool, Drop(tx) PROVE IInv'
<1>1. UNCHANGED <<chainVars, log, pc, queue>> /\ pool' \subseteq pool
  BY DEF Drop
<1>2. Shapes' /\ TxInv' /\ Going' /\ pool' \cap DOMAIN landed' = {}
  BY <1>1, ForgetKeeps DEF chainVars
<1>3. TypeOK'
  BY <1>1, <1>2 DEF IInv, TypeOK, chainVars, Command, CallsOf
<1> QED
  BY <1>2, <1>3 DEF IInv

LEMMA ElsewhereKeeps ==
    ASSUME IInv, NEW left \in 0 .. balance, Elsewhere(left) PROVE IInv'
<1>1. /\ UNCHANGED <<pool, landed, ran, age, log, pc, queue>>
      /\ elsewhere < MaxElsewhere /\ elsewhere' = elsewhere + 1
      /\ nonce' = nonce + 1 /\ balance' = left
  BY DEF Elsewhere
<1>2. Shapes' /\ TxInv' /\ Going'
  BY <1>1, ForgetKeeps
<1>3. elsewhere' \in 0 .. MaxElsewhere /\ nonce' \in Nat /\ balance' \in 0 .. Mod - 1
  BY <1>1, SendAssumption DEF IInv, TypeOK
<1>4. TypeOK'
  BY <1>1, <1>3 DEF IInv, TypeOK, Command, CallsOf
<1> QED
  BY <1>2, <1>4 DEF IInv

LEMMA NewBlockKeeps == ASSUME IInv, NewBlock PROVE IInv'
<1>1. /\ UNCHANGED <<nonce, balance, pool, landed, ran, elsewhere, log, pc, queue>>
      /\ age <= Window /\ age' = age + 1
  BY DEF NewBlock
<1>2. Shapes' /\ TxInv' /\ Going'
  BY <1>1, ForgetKeeps
<1>3. age' \in 0 .. Window + 1
  BY <1>1, SendAssumption DEF IInv, TypeOK
<1>4. TypeOK'
  BY <1>1, <1>3 DEF IInv, TypeOK, Command, CallsOf
<1> QED
  BY <1>2, <1>4 DEF IInv

(* The calls of a transaction, and that they are joined: the flags of       *)
(* eoa_frames tie each frame to the next.                                   *)
LEMMA CallsHas ==
    ASSUME log \in Seq(Entry), NEW tx, Fit(tx)
    PROVE  /\ Len(tx.calls) \in Nat /\ DOMAIN tx.calls = 1 .. Len(tx.calls)
           /\ DOMAIN CallsIn(tx) = DOMAIN tx.calls
<1>1. /\ Len(CallsOf(tx.command)) \in Nat
      /\ DOMAIN CallsOf(tx.command) = 1 .. Len(CallsOf(tx.command))
  BY LogHas DEF Fit
<1>2. Len(tx.calls) \in Nat /\ DOMAIN tx.calls = 1 .. Len(tx.calls)
  <2>1. CASE Whole(tx)
    <3>1. tx.calls = [i \in 1 .. Len(CallsOf(tx.command)) |-> i]
      BY <1>1, <2>1 DEF Whole
    <3> QED
      BY <1>1, <3>1
  <2>2. CASE \E i \in DOMAIN CallsOf(tx.command) : tx.calls = <<i>>
    BY <2>2
  <2> QED
    BY <2>1, <2>2 DEF Fit
<1> QED
  BY <1>2 DEF CallsIn

LEMMA AllJoined ==
    ASSUME log \in Seq(Entry), NEW tx, Fit(tx),
           NEW i \in DOMAIN tx.calls, NEW j \in DOMAIN tx.calls
    PROVE  Joined(tx, i, j)
<1>1. Len(tx.calls) \in Nat /\ DOMAIN tx.calls = 1 .. Len(tx.calls)
  BY CallsHas
<1> QED
  BY <1>1 DEF Joined, AtomicFlag

LEMMA OneOf ==
    ASSUME NEW S, NEW f, NEW i, NEW k \in S, f[k] = i, \A l \in S : f[l] = i => l = k
    PROVE  Cardinality({l \in S : f[l] = i}) = 1
<1>1. {l \in S : f[l] = i} = {k}
  OBVIOUS
<1> QED
  BY <1>1, FS_Singleton

(* What inclusion adds to the calls that took effect.                       *)
AfterGood(tx, good) ==
    [i \in DOMAIN ran[tx.command] |->
        ran[tx.command][i] + Cardinality({k \in good : tx.calls[k] = i})]

LEMMA AllGood ==
    ASSUME log \in Seq(Entry), NEW tx, Fit(tx), Due(tx)
    PROVE  AfterGood(tx, DOMAIN tx.calls)
             = [i \in DOMAIN CallsOf(tx.command) |->
                  IF i <= IF Whole(tx) THEN Len(CallsOf(tx.command)) ELSE tx.calls[1]
                  THEN 1 ELSE 0]
<1> DEFINE D == DOMAIN CallsOf(tx.command)
           N == Len(CallsOf(tx.command))
           Count(i) == Cardinality({k \in DOMAIN tx.calls : tx.calls[k] = i})
<1>1. N \in Nat /\ D = 1 .. N
  BY LogHas DEF Fit
<1>2. CASE Whole(tx)
  <2>1. ran[tx.command] = [i \in D |-> IF i <= 0 THEN 1 ELSE 0]
    BY <1>2 DEF Due, RanFirst
  <2>2. tx.calls = [i \in D |-> i]
    BY <1>2 DEF Whole
  <2>3. \A i \in D : Count(i) = 1
    <3> SUFFICES ASSUME NEW i \in D  PROVE Count(i) = 1
      OBVIOUS
    <3>1. i \in DOMAIN tx.calls /\ tx.calls[i] = i
          /\ \A l \in DOMAIN tx.calls : tx.calls[l] = i => l = i
      BY <2>2
    <3> QED
      BY <3>1, OneOf
  <2> HIDE DEF Count
  <2>4. AfterGood(tx, DOMAIN tx.calls) = [i \in D |-> ran[tx.command][i] + Count(i)]
    BY <2>1 DEF AfterGood, Count
  <2>5. \A i \in D : ran[tx.command][i] + Count(i) = IF i <= N THEN 1 ELSE 0
    BY <1>1, <2>1, <2>3
  <2> QED
    BY <1>2, <2>4, <2>5
<1>3. CASE ~Whole(tx)
  <2>1. PICK m \in D : tx.calls = <<m>>
    BY <1>3 DEF Fit
  <2>2. ran[tx.command] = [i \in D |-> IF i <= m - 1 THEN 1 ELSE 0]
    BY <1>3, <2>1 DEF Due, RanFirst
  <2>3. \A i \in D : Count(i) = IF i = m THEN 1 ELSE 0
    <3> SUFFICES ASSUME NEW i \in D  PROVE Count(i) = IF i = m THEN 1 ELSE 0
      OBVIOUS
    <3>1. DOMAIN tx.calls = {1} /\ tx.calls[1] = m
      BY <2>1
    <3>2. CASE i = m
      BY <3>1, <3>2, OneOf
    <3>3. CASE i # m
      <4>1. {k \in DOMAIN tx.calls : tx.calls[k] = i} = {}
        BY <3>1, <3>3
      <4> QED
        BY <3>3, <4>1, FS_EmptySet
    <3> QED
      BY <3>2, <3>3
  <2> HIDE DEF Count
  <2>4. AfterGood(tx, DOMAIN tx.calls) = [i \in D |-> ran[tx.command][i] + Count(i)]
    BY <2>2 DEF AfterGood, Count
  <2>5. \A i \in D : ran[tx.command][i] + Count(i) = IF i <= m THEN 1 ELSE 0
    BY <1>1, <2>2, <2>3
  <2> QED
    BY <1>3, <2>1, <2>4, <2>5
<1> QED
  BY <1>2, <1>3

LEMMA NoneGood ==
    ASSUME NEW tx, ran[tx.command] \in Seq({0, 1})
    PROVE  AfterGood(tx, {}) = ran[tx.command]
<1>1. \A i : Cardinality({k \in {} : tx.calls[k] = i}) = 0
  <2>1. \A i : {k \in {} : tx.calls[k] = i} = {}
    OBVIOUS
  <2> QED
    BY <2>1, FS_EmptySet
<1> DEFINE f == ran[tx.command]
<1>2. f = [i \in DOMAIN f |-> f[i]] /\ \A i \in DOMAIN f : f[i] \in {0, 1}
  OBVIOUS
<1>3. AfterGood(tx, {}) = [i \in DOMAIN f |-> f[i] + 0]
  BY <1>1 DEF AfterGood
<1> HIDE DEF f
<1>4. \A i \in DOMAIN f : f[i] + 0 = f[i]
  BY <1>2
<1> QED
  BY <1>2, <1>3, <1>4 DEF f

(* An included transaction takes effect as a whole, or not at all.          *)
LEMMA IncludeHas ==
    ASSUME IInv, NEW tx \in pool, NEW bad \in SUBSET DOMAIN tx.calls, Include(tx, bad)
    PROVE  /\ UNCHANGED <<elsewhere, log, pc, queue>> /\ pool' = pool \ {tx}
           /\ nonce' \in Nat /\ balance' \in 0 .. Mod - 1 /\ age' \in 0 .. Window + 1
           /\ DOMAIN landed' = DOMAIN landed \cup {tx}
           /\ landed' \in [DOMAIN landed' -> [status : BOOLEAN, frames : BOOLEAN]]
           /\ \A t \in DOMAIN landed : landed'[t] = landed[t]
           /\ ran' \in Seq(Seq({0, 1})) /\ Len(ran') = Len(ran)
           /\ \A d \in 1 .. Command : d # tx.command => ran'[d] = ran[d]
           /\ \/ Done(tx)'
              \/ ran' = ran /\ ~landed'[tx].frames
<1> DEFINE calls == CallsIn(tx)
           good == {i \in DOMAIN calls : \A j \in bad : ~Joined(tx, i, j)}
           c == tx.command
<1>1. /\ Fit(tx) /\ Due(tx) /\ tx \notin DOMAIN landed
      /\ log \in Seq(Entry) /\ c \in 1 .. Command
      /\ ran \in Seq(Seq({0, 1})) /\ Len(ran) = Command /\ Command \in Nat
  BY LogHas DEF IInv, TxInv, Fit, TypeOK, Shapes
<1>2. /\ UNCHANGED <<elsewhere, log, pc, queue>> /\ pool' = pool \ {tx}
      /\ nonce' = nonce + 1
      /\ age' = IF tx.command = Command /\ Job.kind = "publish" THEN 0 ELSE age
  BY DEF Include
<1>3. /\ balance' = balance - (MaxCost(calls) + PaidOut(calls, good))
      /\ MaxCost(calls) + PaidOut(calls, good) \in 0 .. balance
  BY DEF Include
<1>4. nonce' \in Nat /\ balance' \in 0 .. Mod - 1 /\ age' \in 0 .. Window + 1
  <2>1. \A b \in 0 .. Mod - 1 : \A x \in 0 .. b : b - x \in 0 .. Mod - 1
    BY SendAssumption
  <2> HIDE DEF calls, good
  <2> QED
    BY <1>2, <1>3, <2>1, SendAssumption DEF IInv, TypeOK
<1>5. PICK status \in BOOLEAN :
        landed' = [t \in DOMAIN landed \cup {tx} |->
                     IF t = tx THEN [status |-> status, frames |-> good = DOMAIN calls]
                     ELSE landed[t]]
  BY DEF Include
<1>6. ran' = [ran EXCEPT ![c] = AfterGood(tx, good)]
  BY DEF Include, AfterGood
<1>7. good = DOMAIN tx.calls \/ (good = {} /\ good # DOMAIN calls)
  <2>1. DOMAIN calls = DOMAIN tx.calls
    BY <1>1, CallsHas
  <2>2. \A i, j \in DOMAIN tx.calls : Joined(tx, i, j)
    BY <1>1, AllJoined
  <2>3. CASE bad = {}
    BY <2>1, <2>3
  <2>4. CASE bad # {}
    BY <2>1, <2>2, <2>4
  <2> QED
    BY <2>3, <2>4
<1>8. DOMAIN calls = DOMAIN tx.calls
  BY <1>1, CallsHas
<1> HIDE DEF calls, good
<1>9. /\ DOMAIN landed' = DOMAIN landed \cup {tx}
      /\ landed' \in [DOMAIN landed' -> [status : BOOLEAN, frames : BOOLEAN]]
      /\ \A t \in DOMAIN landed : landed'[t] = landed[t]
      /\ landed'[tx].frames = (good = DOMAIN calls)
  <2>1. /\ DOMAIN landed' = DOMAIN landed \cup {tx}
        /\ \A t \in DOMAIN landed : landed'[t] = landed[t]
        /\ landed'[tx].frames = (good = DOMAIN calls)
    BY <1>1, <1>5
  <2>2. \A t \in DOMAIN landed' : landed'[t] \in [status : BOOLEAN, frames : BOOLEAN]
    <3>1. \A t \in DOMAIN landed : landed[t] \in [status : BOOLEAN, frames : BOOLEAN]
      BY DEF IInv, Shapes
    <3>2. [status |-> status, frames |-> good = DOMAIN calls]
            \in [status : BOOLEAN, frames : BOOLEAN]
      OBVIOUS
    <3> QED
      BY <1>5, <2>1, <3>1, <3>2
  <2>3. landed' = [t \in DOMAIN landed' |-> landed'[t]]
    BY <1>5
  <2> QED
    BY <2>1, <2>2, <2>3
<1>10. \A d \in 1 .. Command : d # c => ran'[d] = ran[d]
  BY <1>1, <1>6
<1>11. CASE good = DOMAIN tx.calls
  <2> DEFINE all == [i \in DOMAIN CallsOf(c) |->
                       IF i <= IF Whole(tx) THEN Len(CallsOf(c)) ELSE tx.calls[1]
                       THEN 1 ELSE 0]
  <2>1. AfterGood(tx, good) = all
    BY <1>1, <1>11, AllGood
  <2>2. all \in Seq({0, 1})
    <3>1. Len(CallsOf(c)) \in Nat /\ DOMAIN CallsOf(c) = 1 .. Len(CallsOf(c))
      BY <1>1, LogHas
    <3> QED
      BY <3>1
  <2> HIDE DEF all
  <2>3. ran' \in Seq(Seq({0, 1})) /\ Len(ran') = Len(ran) /\ ran'[c] = all
    BY <1>1, <1>6, <2>1, <2>2
  <2>4. Done(tx)'
    BY <1>2, <2>3 DEF Done, RanFirst, Whole, CallsOf, all
  <2> QED
    BY <1>2, <1>4, <1>9, <1>10, <2>3, <2>4
<1>12. CASE good = {} /\ good # DOMAIN calls
  <2>1. ran[c] \in Seq({0, 1})
    BY <1>1
  <2>2. AfterGood(tx, good) = ran[c]
    BY <1>12, <2>1, NoneGood
  <2>3. ran' = ran
    BY <1>1, <1>6, <2>2
  <2> QED
    BY <1>1, <1>2, <1>4, <1>9, <1>10, <1>12, <2>3
<1> QED
  BY <1>7, <1>11, <1>12

LEMMA IncludeKeeps ==
    ASSUME IInv, NEW tx \in pool, NEW bad \in SUBSET DOMAIN tx.calls, Include(tx, bad)
    PROVE  IInv'
<1> DEFINE c == tx.command
<1>1. /\ UNCHANGED <<elsewhere, log, pc, queue>> /\ pool' = pool \ {tx}
      /\ nonce' \in Nat /\ balance' \in 0 .. Mod - 1 /\ age' \in 0 .. Window + 1
      /\ DOMAIN landed' = DOMAIN landed \cup {tx}
      /\ landed' \in [DOMAIN landed' -> [status : BOOLEAN, frames : BOOLEAN]]
      /\ \A t \in DOMAIN landed : landed'[t] = landed[t]
      /\ ran' \in Seq(Seq({0, 1})) /\ Len(ran') = Len(ran)
      /\ \A d \in 1 .. Command : d # c => ran'[d] = ran[d]
      /\ \/ Done(tx)'
         \/ ran' = ran /\ ~landed'[tx].frames
  BY IncludeHas
<1>2. /\ Fit(tx) /\ Agreed(tx) /\ tx \notin DOMAIN landed
      /\ log \in Seq(Entry) /\ c \in 1 .. Command
      /\ Len(CallsOf(c)) \in Nat /\ DOMAIN CallsOf(c) = 1 .. Len(CallsOf(c))
  BY LogHas DEF IInv, TxInv, Fit, TypeOK, Shapes
<1>3. Command' = Command /\ Current' = Current /\ Job' = Job
  BY <1>1 DEF Command, Current, Job
<1>4. \A d \in 1 .. Command :
        d # c => \A n : RanFirst(d, n)' <=> RanFirst(d, n)
  BY <1>1 DEF RanFirst, CallsOf
<1>5. \A t : t.command \in 1 .. Command /\ t.command # c =>
        (Due(t)' <=> Due(t)) /\ (Done(t)' <=> Done(t))
  BY <1>1, <1>4 DEF Due, Done, Whole, CallsOf
<1>6. Shapes'
  BY <1>1 DEF IInv, Shapes
<1>7. TypeOK'
  BY <1>1 DEF IInv, TypeOK, Command, CallsOf
<1>8. TxInv'
  <2>1. \A t \in pool' \cup DOMAIN landed' : Fit(t)' /\ Agreed(t)'
    <3>1. \A t \in pool' \cup DOMAIN landed' : Fit(t) /\ Agreed(t)
      BY <1>1, <1>2 DEF IInv, TxInv
    <3>2. \A t : (Fit(t)' <=> Fit(t)) /\ (Agreed(t)' <=> Agreed(t))
      BY <1>1, <1>3 DEF Fit, Agreed, Whole, CallsOf
    <3> QED
      BY <3>1, <3>2
  <2>2. ASSUME NEW t \in pool'  PROVE Due(t)'
    <3>1. t \in pool /\ t.command # c /\ t.command \in 1 .. Command /\ Due(t)
      BY <1>1 DEF IInv, TxInv, Fit
    <3> QED
      BY <1>5, <3>1
  <2>3. RanInOrder'
    <3> SUFFICES ASSUME NEW d \in 1 .. Command
                 PROVE  \E n \in IF "split" \in log[d].yes THEN 0 .. Len(CallsOf(d))
                                 ELSE {0, Len(CallsOf(d))} : RanFirst(d, n)'
      BY <1>1, <1>3 DEF RanInOrder, CallsOf
    <3>1. PICK n \in IF "split" \in log[d].yes THEN 0 .. Len(CallsOf(d))
                     ELSE {0, Len(CallsOf(d))} : RanFirst(d, n)
      BY DEF IInv, TxInv, RanInOrder
    <3>2. CASE d # c
      BY <1>4, <3>1, <3>2
    <3>3. CASE d = c /\ ran' = ran
      BY <1>1, <3>1, <3>3 DEF RanFirst, CallsOf
    <3>4. CASE d = c /\ Done(tx)'
      <4> DEFINE last == IF Whole(tx) THEN Len(CallsOf(c)) ELSE tx.calls[1]
      <4> PICK m : m = last
        OBVIOUS
      <4>1. RanFirst(c, m)'
        BY <1>1, <3>4 DEF Done, RanFirst, Whole, CallsOf
      <4>2. last \in IF "split" \in log[c].yes THEN 0 .. Len(CallsOf(c))
                     ELSE {0, Len(CallsOf(c))}
        <5>1. CASE Whole(tx)
          BY <1>2, <5>1
        <5>2. CASE ~Whole(tx)
          <6>1. PICK i \in DOMAIN CallsOf(c) : tx.calls = <<i>>
            BY <1>2, <5>2 DEF Fit
          <6>2. last = i /\ Len(tx.calls) = 1
            BY <5>2, <6>1
          <6>3. CASE "split" \in log[c].yes
            BY <1>2, <6>1, <6>2, <6>3
          <6>4. CASE "split" \notin log[c].yes
            <7>1. ~(1 < Len(CallsOf(c)))
              BY <1>2, <6>2, <6>4 DEF Agreed
            <7> QED
              BY <1>2, <6>1, <6>2, <6>4, <7>1
          <6> QED
            BY <6>3, <6>4
        <5> QED
          BY <5>1, <5>2
      <4>3. m \in IF "split" \in log[c].yes THEN 0 .. Len(CallsOf(c))
                  ELSE {0, Len(CallsOf(c))}
        BY <4>2
      <4> HIDE DEF last
      <4> QED
        BY <3>4, <4>1, <4>3
    <3> QED
      BY <1>1, <3>2, <3>3, <3>4
  <2>4. \A t, u \in pool' : t.command = u.command => t = u
    BY <1>1 DEF IInv, TxInv
  <2> QED
    BY <2>1, <2>2, <2>3, <2>4 DEF TxInv
<1>9. Going'
  <2>1. Sent(Command)' = Sent(Command) /\ (NonePending => NonePending')
    BY <1>1, <1>3 DEF Sent, NonePending
  <2>2. /\ \A i : Unsent(queue, i)' <=> Unsent(queue, i)
        /\ AllInOne(queue)' <=> AllInOne(queue)
        /\ OneByOne(queue)' <=> OneByOne(queue)
    BY <1>1, <1>3, <2>1 DEF Unsent, AllInOne, OneByOne, Whole, CallsOf
  <2>3. c # Command => \A n : RanFirst(Command, n)' <=> RanFirst(Command, n)
    <3>1. Command \in 1 .. Command
      BY <1>2, LogHas
    <3> QED
      BY <1>3, <1>4, <3>1 DEF RanFirst, CallsOf
  <2>4. Sent(Command) = {} \/ NonePending => c # Command
    BY DEF Sent, NonePending
  <2>5. CASE pc \in Started
    BY <1>1, <1>3, <2>1, <2>2, <2>3, <2>4, <2>5 DEF IInv, Going, Started, AfterAsk
  <2>6. CASE pc = "send"
    <3>1. Due(Head(queue))'
      <4>1. Head(queue).command = Command /\ Due(Head(queue)) /\ c # Command
        BY <2>4, <2>6, HeadIsFit DEF IInv, Going
      <4>2. Command \in 1 .. Command
        BY <1>2, LogHas
      <4> QED
        BY <1>1, <1>5, <4>1, <4>2 DEF Due, Whole, CallsOf, RanFirst
    <3> QED
      BY <1>1, <1>3, <2>1, <2>2, <2>6, <3>1 DEF IInv, Going, Started, AfterAsk
  <2>7. CASE pc = "wait"
    <3>1. Head(queue).command = Command /\ Command \in 1 .. Command
      BY <1>2, <2>7, HeadIsFit, LogHas
    <3>2. ASSUME Head(queue) \in DOMAIN landed', landed'[Head(queue)].frames
          PROVE  Done(Head(queue))'
      <4>1. CASE Head(queue) = tx
        BY <1>1, <3>2, <4>1
      <4>2. CASE Head(queue) # tx
        <5>1. Head(queue) \in DOMAIN landed /\ landed[Head(queue)].frames
          BY <1>1, <3>2, <4>2
        <5>2. Done(Head(queue)) /\ c # Command
          BY <2>7, <4>2, <5>1 DEF IInv, Going
        <5> QED
          BY <1>1, <1>5, <3>1, <5>2 DEF Done, Whole, CallsOf, RanFirst
      <4> QED
        BY <4>1, <4>2
    <3>3. \A t \in pool' : t.command = Command => t = Head(queue)
      BY <1>1, <2>7 DEF IInv, Going
    <3> QED
      BY <1>1, <1>3, <2>1, <2>2, <2>7, <3>2, <3>3 DEF IInv, Going, Started, AfterAsk
  <2>8. CASE pc \in {"idle", "confirm"}
    BY <1>1, <1>3, <2>1, <2>3, <2>4, <2>8 DEF IInv, Going, Started, AfterAsk
  <2> QED
    BY <2>5, <2>6, <2>7, <2>8 DEF IInv, TypeOK, Started
<1> QED
  BY <1>6, <1>7, <1>8, <1>9 DEF IInv

-----------------------------------------------------------------------------
(* The specification.                                                       *)

LEMMA InitIInv == ASSUME Init PROVE IInv
<1>1. /\ Command = 0 /\ DOMAIN landed = {} /\ log = <<>> /\ ran = <<>> /\ queue = <<>>
      /\ pool = {} /\ pc = "idle" /\ landed = <<>>
  BY DEF Init, Command
<1>2. TypeOK
  BY <1>1, SendAssumption DEF Init, TypeOK
<1>3. Shapes
  BY <1>1 DEF Shapes
<1>4. TxInv
  BY <1>1 DEF TxInv, RanInOrder
<1>5. Going
  BY <1>1 DEF Going, Started, AfterAsk
<1> QED
  BY <1>2, <1>3, <1>4, <1>5 DEF IInv

LEMMA StutterKeeps == ASSUME IInv, UNCHANGED vars PROVE IInv'
<1>1. /\ UNCHANGED <<nonce, balance, pool, landed, ran, age, elsewhere, log, pc, queue>>
      /\ Command' = Command
  BY DEF vars, Command
<1>2. Shapes' /\ TxInv' /\ Going'
  BY <1>1, ForgetKeeps
<1>3. TypeOK'
  BY <1>1 DEF IInv, TypeOK, CallsOf
<1> QED
  BY <1>2, <1>3 DEF IInv

LEMMA NextKeeps == ASSUME IInv, [Next]_vars PROVE IInv'
<1>1. ASSUME NEW job \in Jobs, Transfer(job) \/ TransactRaw(job) \/ Claim(job)
      PROVE  IInv'
  <2>1. Start(job, "cost") /\ (job.kind = "transfer" => Len(job.calls) = 1)
    BY <1>1 DEF Transfer, TransactRaw, Claim
  <2> QED
    BY <2>1, StartKeeps
<1>2. ASSUME NEW job \in Jobs, PublishEpochRoot(job)  PROVE IInv'
  <2>1. Start(job, "ask") /\ (job.kind = "transfer" => Len(job.calls) = 1)
    BY <1>2 DEF PublishEpochRoot
  <2> QED
    BY <2>1, StartKeeps
<1>3. CASE Wallet
  BY <1>3, CostKeeps, RefreshKeeps, PlanKeeps, SendKeeps, ReceiptKeeps, ConfirmKeeps,
     GiveUpKeeps, SimulateKeeps, AskKeeps, AskSplitKeeps DEF Wallet
<1>4. CASE Network
  BY <1>4, DropKeeps, IncludeKeeps, ElsewhereKeeps, NewBlockKeeps DEF Network
<1> QED
  BY <1>1, <1>2, <1>3, <1>4, SendUnansweredKeeps, FailKeeps, StutterKeeps DEF Next

LEMMA Inductive == Spec => []IInv
<1> QED
  BY InitIInv, NextKeeps, PTL DEF Spec

(* However the commands of the wallet, the chain, a mempool that forgets    *)
(* and another wallet with the same key interleave: the calls of a command  *)
(* take effect in order and once, all or none unless the split was agreed   *)
(* to (eoa_frames' batch flags, the wait of commit_calls for each receipt), *)
(* and nothing reaches the node before want_broadcast said yes to it.       *)
THEOREM SendsAreSafe == Spec => [](TypeOK /\ RanInOrder /\ NothingUnasked)
<1>1. IInv => TypeOK /\ RanInOrder /\ NothingUnasked
  BY DEF IInv, TxInv, Agreed, NothingUnasked, Sent
<1> QED
  BY <1>1, Inductive, PTL

(* A step that makes no report of success.                                  *)
NoSuccess ==
    \A c \in 1 .. Command : log[c].report = "none" => log'[c].report # "ok"

LEMMA EndSucceeds ==
    ASSUME IInv, NEW report, pc # "idle", End(report),
           NEW c \in 1 .. Command, log[c].report = "none", log'[c].report = "ok"
    PROVE  c = Command /\ report = "ok"
<1>1. c = Command
  BY DEF IInv, TypeOK
<1>2. log'[c].report = report
  BY <1>1, CurrentHas, LogHas DEF End, Entry
<1> QED
  BY <1>1, <1>2

LEMMA SameLogIsNoSuccess == ASSUME log' = log PROVE NoSuccess
BY DEF NoSuccess

LEMMA StartIsNoSuccess ==
    ASSUME IInv, NEW job, NEW at, Start(job, at) PROVE NoSuccess
<1>1. \A c \in 1 .. Command : log'[c] = log[c]
  BY LogHas DEF Start, IInv, Shapes, Command
<1> QED
  BY <1>1 DEF NoSuccess

(* A yes, a balance or an amount in the entry of a command is no report.    *)
LEMMA UpdateIsNoSuccess ==
    ASSUME IInv, pc # "idle", NEW e, e.report = Current.report,
           log' = [log EXCEPT ![Command] = e]
    PROVE  NoSuccess
<1>1. log \in Seq(Entry) /\ Command \in 1 .. Command /\ Current = log[Command]
  BY CurrentHas
<1>2. \A c \in 1 .. Command : log'[c].report = log[c].report
  BY <1>1, LogHas
<1> QED
  BY <1>2 DEF NoSuccess

LEMMA FailureIsNoSuccess ==
    ASSUME IInv, pc # "idle", NEW report \in {"failed", "dry"}, End(report)
    PROVE  NoSuccess
BY EndSucceeds DEF NoSuccess

LEMMA WalletReports ==
    ASSUME IInv,
           \/ Cost \/ RefreshBalance \/ Plan \/ Send \/ GiveUp \/ SendUnanswered \/ Fail
           \/ \E yes \in BOOLEAN : Simulate(yes) \/ Ask(yes) \/ AskSplit(yes)
    PROVE  NoSuccess
<1>1. CASE Cost
  <2> DEFINE calls == IF Job.kind = "transfer"
                      THEN PickValue(Current.seen, Job.calls, Job.max) ELSE Job.calls
             e == [Current EXCEPT !.job = [@ EXCEPT !.calls = calls]]
  <2>1. pc # "idle"
    BY <1>1 DEF Cost
  <2>2. End("failed") \/ log' = [log EXCEPT ![Command].job.calls = calls]
    BY <1>1 DEF Cost
  <2>3. Current \in Entry
    BY <2>1, CurrentHas
  <2>4. e.report = Current.report
    BY <2>3 DEF Entry
  <2>5. ASSUME log' = [log EXCEPT ![Command].job.calls = calls]
        PROVE  log' = [log EXCEPT ![Command] = e]
    BY <2>5 DEF Current
  <2> HIDE DEF e, calls
  <2> QED
    BY <2>1, <2>2, <2>4, <2>5, FailureIsNoSuccess, UpdateIsNoSuccess
<1>2. CASE RefreshBalance
  <2> DEFINE e == [Current EXCEPT !.seen = balance]
  <2>1. pc # "idle" /\ log' = [log EXCEPT ![Command] = e]
    BY <1>2 DEF RefreshBalance, Current
  <2>2. Current \in Entry
    BY <2>1, CurrentHas
  <2>3. e.report = Current.report
    BY <2>2 DEF Entry
  <2> HIDE DEF e
  <2> QED
    BY <2>1, <2>3, UpdateIsNoSuccess
<1>3. ASSUME NEW yes \in BOOLEAN, Ask(yes) \/ AskSplit(yes)  PROVE NoSuccess
  <2>1. pc # "idle"
    BY <1>3 DEF Ask, AskSplit
  <2>2. Current \in Entry
    BY <2>1, CurrentHas
  <2>3. ASSUME NEW what, log' = [log EXCEPT ![Command].yes = @ \cup {what}]
        PROVE  NoSuccess
    <3> DEFINE e == [Current EXCEPT !.yes = @ \cup {what}]
    <3>1. log' = [log EXCEPT ![Command] = e]
      BY <2>3 DEF Current
    <3>2. e.report = Current.report
      BY <2>2 DEF Entry
    <3> HIDE DEF e
    <3> QED
      BY <2>1, <3>1, <3>2, UpdateIsNoSuccess
  <2>4. \/ \E report \in {"failed", "dry"} : End(report)
        \/ \E what : log' = [log EXCEPT ![Command].yes = @ \cup {what}]
    BY <1>3 DEF Ask, AskSplit
  <2> QED
    BY <2>1, <2>3, <2>4, FailureIsNoSuccess
<1>4. ASSUME Plan \/ \E rejected \in BOOLEAN : Simulate(rejected)  PROVE NoSuccess
  <2>1. pc # "idle" /\ (log' = log \/ End("failed"))
    BY <1>4 DEF Plan, Simulate, SendIfPaid
  <2> QED
    BY <2>1, FailureIsNoSuccess, SameLogIsNoSuccess
<1>5. ASSUME Send \/ GiveUp \/ SendUnanswered \/ Fail  PROVE NoSuccess
  <2>1. pc # "idle" /\ (log' = log \/ End("failed"))
    BY <1>5 DEF Send, GiveUp, SendUnanswered, Fail
  <2> QED
    BY <2>1, FailureIsNoSuccess, SameLogIsNoSuccess
<1> QED
  BY <1>1, <1>2, <1>3, <1>4, <1>5

LEMMA ReceiptReports ==
    ASSUME IInv, Receipt, NEW c \in 1 .. Command,
           log[c].report = "none", log'[c].report = "ok"
    PROVE  RanFirst(c, Len(CallsOf(c))) /\ log[c].job.kind # "publish"
<1>1. pc = "wait" /\ Head(queue) \in DOMAIN landed /\ pc # "idle"
  BY DEF Receipt
<1>2. c = Command
  BY DEF IInv, TypeOK
<1>3. /\ landed[Head(queue)].frames /\ Tail(queue) = <<>>
      /\ Job.kind # "publish"
  <2>1. ASSUME log' = log \/ End("failed")  PROVE FALSE
    BY <1>1, <2>1, EndSucceeds
  <2> QED
    BY <2>1 DEF Receipt, ReceiptAllOk
<1>4. Len(queue) = 1
  <2>1. queue # <<>> /\ queue \in Seq({queue[i] : i \in DOMAIN queue})
    BY <1>1 DEF IInv, TypeOK, Shapes
  <2> QED
    BY <1>3, <2>1, TailHas
<1>5. RanFirst(Command, Len(Job.calls))
  BY <1>1, <1>3, <1>4, ReceiptMeans
<1> QED
  BY <1>1, <1>2, <1>3, <1>5, CurrentHas DEF Job

LEMMA ConfirmReports ==
    ASSUME IInv, Confirm, NEW c \in 1 .. Command,
           log[c].report = "none", log'[c].report = "ok"
    PROVE  RanFirst(c, Len(CallsOf(c))) /\ age \in 2 .. Window
<1>1. pc = "confirm" /\ age >= 2 /\ End(IF age <= Window THEN "ok" ELSE "failed")
  BY DEF Confirm
<1>2. c = Command
  BY DEF IInv, TypeOK
<1>3. age <= Window
  BY <1>1, EndSucceeds
<1>4. RanFirst(Command, Len(Job.calls)) /\ Job.calls = CallsOf(Command)
  BY <1>1, CurrentHas DEF IInv, Going
<1> QED
  BY <1>1, <1>2, <1>3, <1>4, SendAssumption DEF IInv, TypeOK

(* A command reports success only when every call of it took effect, and a  *)
(* published root is then two blocks deep and still in the window, whatever *)
(* the receipts say of single frames and however late they are              *)
(* (receipt_all_ok, commit_calls, publish_for).                             *)
THEOREM ReportsAreTrue == Spec => ReportIsTrue
<1>1. ASSUME IInv, [Next]_vars, NEW c \in 1 .. Command,
             log[c].report = "none" /\ log'[c].report = "ok"
      PROVE  /\ RanFirst(c, Len(CallsOf(c)))
             /\ log[c].job.kind = "publish" => age \in 2 .. Window
  <2>1. ~NoSuccess
    BY <1>1 DEF NoSuccess
  <2>2. ~(\E job \in Jobs :
            Transfer(job) \/ TransactRaw(job) \/ Claim(job) \/ PublishEpochRoot(job))
    BY <1>1, <2>1, StartIsNoSuccess DEF Transfer, TransactRaw, Claim, PublishEpochRoot
  <2>3. ~Network /\ ~UNCHANGED vars
    BY <2>1, SameLogIsNoSuccess DEF Network, Drop, Include, Elsewhere, NewBlock, vars
  <2>4. Receipt \/ Confirm
    BY <1>1, <2>1, <2>2, <2>3, WalletReports DEF Next, Wallet
  <2> QED
    BY <1>1, <2>4, ReceiptReports, ConfirmReports
<1>2. IInv /\ [Next]_vars =>
        [\A c \in 1 .. Command :
           log[c].report = "none" /\ log'[c].report = "ok"
             => /\ RanFirst(c, Len(CallsOf(c)))
                /\ log[c].job.kind = "publish" => age \in 2 .. Window]_vars
  BY <1>1
<1> QED
  BY <1>2, Inductive, PTL DEF Spec, ReportIsTrue

-----------------------------------------------------------------------------
(* Sums over finite sets.                                                   *)

(* Proofs by induction on the size of a set: a set of numbers that is not   *)
(* empty has a least element.                                               *)
LEMMA LeastNumber ==
    ASSUME NEW T \in SUBSET Nat, T # {}
    PROVE  \E n \in T : \A m \in T : n <= m
<1> DEFINE R == {ss \in Nat \X Nat : ss[1] < ss[2]}
<1>1. IsWellFoundedOn(R, Nat)
  BY NatLessThanWellFounded DEF OpToRel
<1> HIDE DEF R
<1>2. PICK x \in T : \A y \in T : ~(<<y, x>> \in R)
  BY <1>1, WFMin
<1>3. \A y \in T : ~(y < x)
  BY <1>2 DEF R
<1> QED
  BY <1>3

Chosen(s) == CHOOSE x \in s : TRUE

LEMMA ChosenLess ==
    ASSUME NEW S, IsFiniteSet(S), NEW s \in SUBSET S, s # {}
    PROVE  /\ Chosen(s) \in s /\ Chosen(s) \in S /\ s \ {Chosen(s)} \in SUBSET S
           /\ Cardinality(s) \in Nat /\ Cardinality(s \ {Chosen(s)}) = Cardinality(s) - 1
           /\ Cardinality(s) <= Cardinality(S)
<1>1. Chosen(s) \in s
  BY DEF Chosen
<1>2. IsFiniteSet(s) /\ Cardinality(s) <= Cardinality(S)
  BY FS_Subset
<1> QED
  BY <1>1, <1>2, FS_RemoveElement, FS_CardinalityType

(* A fold over a set has a value: the function that folds every subset.     *)
FoldsTo(g, H, base, s) ==
    g[s] = IF s = {} THEN base ELSE H[<<Chosen(s), g[s \ {Chosen(s)}]>>]

LEMMA FoldExists ==
    ASSUME NEW S, IsFiniteSet(S), NEW base \in Nat, NEW H \in [S \X Nat -> Nat]
    PROVE  \E g \in [SUBSET S -> Nat] : \A s \in SUBSET S : FoldsTo(g, H, base, s)
<1> DEFINE P(k) == \E g \in [SUBSET S -> Nat] :
                     \A s \in SUBSET S : Cardinality(s) <= k => FoldsTo(g, H, base, s)
           Bad == {k \in Nat : ~P(k)}
<1>1. ASSUME NEW s \in SUBSET S PROVE Cardinality(s) \in Nat /\ (Cardinality(s) = 0 <=> s = {})
  BY FS_Subset, FS_CardinalityType, FS_EmptySet
<1>2. P(0)
  <2> DEFINE g == [s \in SUBSET S |-> base]
  <2>1. \A s \in SUBSET S : Cardinality(s) <= 0 => FoldsTo(g, H, base, s)
    BY <1>1 DEF FoldsTo
  <2> QED
    BY <2>1
<1>3. ASSUME NEW k \in Nat, P(k) PROVE P(k + 1)
  <2>1. PICK g \in [SUBSET S -> Nat] :
               \A s \in SUBSET S : Cardinality(s) <= k => FoldsTo(g, H, base, s)
    BY <1>3
  <2> DEFINE G(s) == IF s = {} THEN base ELSE H[<<Chosen(s), g[s \ {Chosen(s)}]>>]
             h == [s \in SUBSET S |-> G(s)]
  <2>2. h \in [SUBSET S -> Nat]
    <3> SUFFICES ASSUME NEW s \in SUBSET S PROVE G(s) \in Nat
      OBVIOUS
    <3>1. CASE s = {}
      BY <3>1
    <3>2. CASE s # {}
      <4>1. <<Chosen(s), g[s \ {Chosen(s)}]>> \in S \X Nat
        BY <3>2, ChosenLess
      <4> QED
        BY <3>2, <4>1
    <3> QED
      BY <3>1, <3>2
  <2>3. ASSUME NEW s \in SUBSET S, Cardinality(s) <= k PROVE h[s] = g[s]
    BY <2>1, <2>3 DEF FoldsTo
  <2>4. ASSUME NEW s \in SUBSET S, Cardinality(s) <= k + 1 PROVE FoldsTo(h, H, base, s)
    <3>1. CASE s = {}
      BY <3>1 DEF FoldsTo
    <3>2. CASE s # {}
      <4> DEFINE t == s \ {Chosen(s)}
      <4>1. t \in SUBSET S /\ Cardinality(t) <= k
        BY <2>4, <3>2, ChosenLess
      <4>2. h[t] = g[t]
        BY <2>3, <4>1
      <4>3. h[s] = H[<<Chosen(s), g[t]>>]
        BY <3>2
      <4> QED
        BY <3>2, <4>2, <4>3 DEF FoldsTo
    <3> QED
      BY <3>1, <3>2
  <2> HIDE DEF h
  <2> QED
    BY <2>2, <2>4
<1>4. Bad = {}
  <2> SUFFICES ASSUME Bad # {} PROVE FALSE
    OBVIOUS
  <2> HIDE DEF P
  <2>1. PICK n \in Bad : \A m \in Bad : n <= m
    BY LeastNumber
  <2>2. n # 0
    BY <1>2
  <2>3. n - 1 \in Nat /\ n - 1 \notin Bad
    BY <2>1, <2>2
  <2>4. P((n - 1) + 1)
    BY <1>3, <2>3
  <2>5. (n - 1) + 1 = n
    BY <2>3
  <2> QED
    BY <2>4, <2>5
<1>5. Cardinality(S) \in Nat
  BY FS_CardinalityType
<1>6. P(Cardinality(S))
  BY <1>4, <1>5
<1>7. \A s \in SUBSET S : Cardinality(s) <= Cardinality(S)
  BY FS_Subset
<1> QED
  BY <1>6, <1>7

(* What is true of a set when it is true of its proper subsets is true of   *)
(* every finite set; here: the sets of Bad would have a smallest one.       *)
LEMMA SmallestSet ==
    ASSUME NEW S, IsFiniteSet(S), NEW Bad \in SUBSET SUBSET S, Bad # {}
    PROVE  \E s \in Bad : \A x \in s : s \ {x} \notin Bad
<1> DEFINE Sizes == {Cardinality(s) : s \in Bad}
<1>1. ASSUME NEW s \in Bad PROVE IsFiniteSet(s) /\ Cardinality(s) \in Nat
  BY FS_Subset, FS_CardinalityType
<1>2. Sizes \in SUBSET Nat /\ Sizes # {}
  BY <1>1
<1>3. PICK n \in Sizes : \A m \in Sizes : n <= m
  BY <1>2, LeastNumber
<1>4. PICK s \in Bad : n = Cardinality(s)
  BY <1>3
<1>5. ASSUME NEW x \in s, s \ {x} \in Bad PROVE FALSE
  <2>1. Cardinality(s \ {x}) = n - 1 /\ n \in Nat
    BY <1>1, <1>4, FS_RemoveElement
  <2>2. n <= n - 1
    BY <1>3, <1>5, <2>1
  <2> QED
    BY <2>1, <2>2
<1> QED
  BY <1>5

(* The sum of the values of a function on a set: the function that sums up  *)
(* every subset, one chosen member after the other.                         *)
Sums(g, f, S) ==
    \A s \in SUBSET S :
        g[s] = IF s = {} THEN 0 ELSE f[Chosen(s)] + g[s \ {Chosen(s)}]

LEMMA SumsAgree ==
    ASSUME NEW S, IsFiniteSet(S), NEW f, NEW g, NEW h, Sums(g, f, S), Sums(h, f, S)
    PROVE  \A s \in SUBSET S : g[s] = h[s]
<1> DEFINE Bad == {s \in SUBSET S : h[s] # g[s]}
<1> SUFFICES ASSUME Bad # {} PROVE FALSE
  OBVIOUS
<1>1. PICK s \in Bad : \A x \in s : s \ {x} \notin Bad
  <2>1. Bad \in SUBSET SUBSET S
    OBVIOUS
  <2> HIDE DEF Bad
  <2> QED
    BY <2>1, SmallestSet
<1>2. s # {}
  BY DEF Sums
<1>3. h[s \ {Chosen(s)}] = g[s \ {Chosen(s)}]
  BY <1>1, <1>2, ChosenLess
<1> QED
  BY <1>2, <1>3 DEF Sums

LEMMA SumIsFold ==
    ASSUME NEW S, IsFiniteSet(S), NEW f, \A x \in S : f[x] \in Nat
    PROVE  \E g \in [SUBSET S -> Nat] : SumFunctionOnSet(f, S) = g[S] /\ Sums(g, f, S)
<1> DEFINE H == [p \in S \X Nat |-> f[p[1]] + p[2]]
           Is(g) == g = [s \in SUBSET S |-> IF s = {} THEN 0
                                            ELSE f[Chosen(s)] + g[s \ {Chosen(s)}]]
<1>1. H \in [S \X Nat -> Nat]
  OBVIOUS
<1> HIDE DEF H
<1>2. PICK g \in [SUBSET S -> Nat] : \A s \in SUBSET S : FoldsTo(g, H, 0, s)
  BY <1>1, FoldExists
<1>3. Sums(g, f, S)
  <2> SUFFICES ASSUME NEW s \in SUBSET S
               PROVE  g[s] = IF s = {} THEN 0 ELSE f[Chosen(s)] + g[s \ {Chosen(s)}]
    BY DEF Sums
  <2>1. CASE s = {}
    BY <1>2, <2>1 DEF FoldsTo
  <2>2. CASE s # {}
    <3>1. <<Chosen(s), g[s \ {Chosen(s)}]>> \in S \X Nat
      BY <2>2, ChosenLess
    <3>2. H[<<Chosen(s), g[s \ {Chosen(s)}]>>] = f[Chosen(s)] + g[s \ {Chosen(s)}]
      BY <3>1 DEF H
    <3> QED
      BY <1>2, <2>2, <3>2 DEF FoldsTo
  <2> QED
    BY <2>1, <2>2
<1>4. Is(g)
  BY <1>3 DEF Sums
<1> DEFINE h == CHOOSE h : Is(h)
<1>5. Is(h)
  BY <1>4
<1>6. SumFunctionOnSet(f, S) = h[S]
  BY Zenon DEF SumFunctionOnSet, FoldFunctionOnSet, MapThenFoldSet, Chosen
<1>7. Sums(h, f, S)
  BY <1>5 DEF Sums
<1> HIDE DEF h
<1>8. h[S] = g[S]
  BY <1>3, <1>7, SumsAgree
<1> QED
  BY <1>3, <1>6, <1>8

(* A sum takes its members one by one, the chosen one first, ...            *)
LEMMA SumOfChosen ==
    ASSUME NEW S, IsFiniteSet(S), NEW f, \A x \in S : f[x] \in Nat
    PROVE  /\ SumFunctionOnSet(f, S) \in Nat
           /\ S = {} => SumFunctionOnSet(f, S) = 0
           /\ S # {} => SumFunctionOnSet(f, S) =
                          f[Chosen(S)] + SumFunctionOnSet(f, S \ {Chosen(S)})
<1>1. PICK g \in [SUBSET S -> Nat] : SumFunctionOnSet(f, S) = g[S] /\ Sums(g, f, S)
  BY SumIsFold
<1>2. ASSUME S # {}
      PROVE  SumFunctionOnSet(f, S) = f[Chosen(S)] + SumFunctionOnSet(f, S \ {Chosen(S)})
  <2> DEFINE T == S \ {Chosen(S)}
  <2>1. IsFiniteSet(T) /\ T \in SUBSET S
    BY FS_Subset
  <2>2. PICK h \in [SUBSET T -> Nat] : SumFunctionOnSet(f, T) = h[T] /\ Sums(h, f, T)
    BY <2>1, SumIsFold
  <2>3. Sums(g, f, T)
    BY <1>1, <2>1 DEF Sums
  <2>4. g[T] = h[T]
    BY <2>1, <2>2, <2>3, SumsAgree
  <2>5. g[S] = f[Chosen(S)] + g[T]
    BY <1>1, <1>2 DEF Sums
  <2> QED
    BY <1>1, <2>2, <2>4, <2>5
<1>3. S = {} => g[S] = 0
  BY <1>1 DEF Sums
<1> QED
  BY <1>1, <1>2, <1>3

(* ... or in any other order.                                               *)
LEMMA SumOfOne ==
    ASSUME NEW S, IsFiniteSet(S), NEW f, \A x \in S : f[x] \in Nat, NEW x \in S
    PROVE  SumFunctionOnSet(f, S) = f[x] + SumFunctionOnSet(f, S \ {x})
<1> DEFINE Sum(s) == SumFunctionOnSet(f, s)
           Bad == {s \in SUBSET S : ~(\A y \in s : Sum(s) = f[y] + Sum(s \ {y}))}
<1>1. ASSUME NEW s \in SUBSET S
      PROVE  /\ IsFiniteSet(s) /\ Sum(s) \in Nat
             /\ s # {} => Chosen(s) \in s /\ Sum(s) = f[Chosen(s)] + Sum(s \ {Chosen(s)})
  <2>1. IsFiniteSet(s) /\ \A y \in s : f[y] \in Nat
    BY FS_Subset
  <2>2. s # {} => Chosen(s) \in s
    BY DEF Chosen
  <2> QED
    BY <2>1, <2>2, SumOfChosen
<1> HIDE DEF Sum
<1>2. Bad = {}
  <2> SUFFICES ASSUME Bad # {} PROVE FALSE
    OBVIOUS
  <2>1. PICK s \in Bad : \A y \in s : s \ {y} \notin Bad
    <3>1. Bad \in SUBSET SUBSET S
      OBVIOUS
    <3> HIDE DEF Bad
    <3> QED
      BY <3>1, SmallestSet
  <2>2. PICK y \in s : Sum(s) # f[y] + Sum(s \ {y})
    OBVIOUS
  <2> DEFINE c == Chosen(s)
  <2>3. c \in s /\ c # y /\ Sum(s) = f[c] + Sum(s \ {c})
    BY <1>1, <2>2
  <2> HIDE DEF c
  <2>4. Sum(s \ {c}) = f[y] + Sum((s \ {c}) \ {y})
    BY <2>1, <2>3
  <2>5. Sum(s \ {y}) = f[c] + Sum((s \ {y}) \ {c})
    BY <2>1, <2>3
  <2>6. (s \ {y}) \ {c} = (s \ {c}) \ {y}
    OBVIOUS
  <2>7. f[y] \in Nat /\ f[c] \in Nat /\ Sum((s \ {c}) \ {y}) \in Nat
    BY <1>1, <2>3
  <2> QED
    BY <2>2, <2>3, <2>4, <2>5, <2>6, <2>7
<1> QED
  BY <1>2 DEF Sum

(* Fewer members, a smaller sum.                                            *)
LEMMA SumOfPart ==
    ASSUME NEW S, IsFiniteSet(S), NEW f, \A x \in S : f[x] \in Nat, NEW U \in SUBSET S
    PROVE  SumFunctionOnSet(f, U) <= SumFunctionOnSet(f, S)
<1> DEFINE Sum(s) == SumFunctionOnSet(f, s)
           Bad == {s \in SUBSET S : U \subseteq s /\ ~(Sum(U) <= Sum(s))}
<1>1. ASSUME NEW s \in SUBSET S
      PROVE  Sum(s) \in Nat /\ \A y \in s : Sum(s) = f[y] + Sum(s \ {y})
  <2>1. IsFiniteSet(s) /\ \A y \in s : f[y] \in Nat
    BY FS_Subset
  <2> QED
    BY <2>1, SumOfChosen, SumOfOne
<1> HIDE DEF Sum
<1>2. Bad = {}
  <2> SUFFICES ASSUME Bad # {} PROVE FALSE
    OBVIOUS
  <2>1. PICK s \in Bad : \A y \in s : s \ {y} \notin Bad
    <3>1. Bad \in SUBSET SUBSET S
      OBVIOUS
    <3> HIDE DEF Bad
    <3> QED
      BY <3>1, SmallestSet
  <2>2. s # U
    BY <1>1
  <2>3. PICK y \in s : y \notin U
    BY <2>2
  <2>4. Sum(U) <= Sum(s \ {y}) /\ Sum(s) = f[y] + Sum(s \ {y})
    BY <1>1, <2>1, <2>3
  <2>5. f[y] \in Nat /\ Sum(s \ {y}) \in Nat /\ Sum(U) \in Nat
    BY <1>1
  <2> QED
    BY <2>4, <2>5
<1> QED
  BY <1>2 DEF Sum

(* Members that map to different ones of no smaller value.                  *)
LEMMA SumInto ==
    ASSUME NEW S, NEW T, IsFiniteSet(S), IsFiniteSet(T), NEW m \in [S -> T],
           \A x, y \in S : m[x] = m[y] => x = y,
           NEW f, \A x \in S : f[x] \in Nat, NEW h, \A x \in T : h[x] \in Nat,
           \A x \in S : f[x] <= h[m[x]]
    PROVE  SumFunctionOnSet(f, S) <= SumFunctionOnSet(h, T)
<1> DEFINE Sum(s) == SumFunctionOnSet(f, s)
           Into(s) == SumFunctionOnSet(h, {m[x] : x \in s})
           Bad == {s \in SUBSET S : ~(Sum(s) <= Into(s))}
<1>1. ASSUME NEW s \in SUBSET S
      PROVE  /\ Sum(s) \in Nat /\ Into(s) \in Nat
             /\ s = {} => Sum(s) = 0
             /\ \A y \in s : Sum(s) = f[y] + Sum(s \ {y})
             /\ \A y \in s : Into(s) = h[m[y]] + Into(s \ {y})
  <2> DEFINE Im == {m[x] : x \in s}
  <2>1. IsFiniteSet(s) /\ \A y \in s : f[y] \in Nat
    BY FS_Subset
  <2>2. Im \in SUBSET T
    OBVIOUS
  <2>3. IsFiniteSet(Im) /\ \A y \in Im : h[y] \in Nat
    BY <2>2, FS_Subset
  <2>4. ASSUME NEW y \in s PROVE Into(s) = h[m[y]] + Into(s \ {y})
    <3>1. {m[x] : x \in s \ {y}} = Im \ {m[y]} /\ m[y] \in Im
      OBVIOUS
    <3> HIDE DEF Im
    <3>2. SumFunctionOnSet(h, Im) = h[m[y]] + SumFunctionOnSet(h, Im \ {m[y]})
      BY <2>3, <3>1, SumOfOne
    <3> QED
      BY <3>1, <3>2 DEF Im
  <2>5. Into(s) \in Nat
    BY <2>3, SumOfChosen
  <2>6. /\ Sum(s) \in Nat
        /\ s = {} => Sum(s) = 0
        /\ \A y \in s : Sum(s) = f[y] + Sum(s \ {y})
    BY <2>1, SumOfChosen, SumOfOne
  <2> HIDE DEF Sum, Into
  <2> QED
    BY <2>4, <2>5, <2>6
<1>2. {m[x] : x \in S} \in SUBSET T
  OBVIOUS
<1>3. Into(S) <= SumFunctionOnSet(h, T)
  BY <1>2, SumOfPart
<1>4. SumFunctionOnSet(h, T) \in Nat
  BY SumOfChosen
<1> HIDE DEF Sum, Into
<1>5. Bad = {}
  <2> SUFFICES ASSUME Bad # {} PROVE FALSE
    OBVIOUS
  <2>1. PICK s \in Bad : \A y \in s : s \ {y} \notin Bad
    <3>1. Bad \in SUBSET SUBSET S
      OBVIOUS
    <3> HIDE DEF Bad
    <3> QED
      BY <3>1, SmallestSet
  <2>2. s # {}
    BY <1>1
  <2>3. PICK y \in s : TRUE
    BY <2>2
  <2>4. /\ Sum(s \ {y}) <= Into(s \ {y}) /\ Sum(s) = f[y] + Sum(s \ {y})
        /\ Into(s) = h[m[y]] + Into(s \ {y})
    BY <1>1, <2>1
  <2>5. /\ f[y] \in Nat /\ h[m[y]] \in Nat /\ f[y] <= h[m[y]]
        /\ Sum(s \ {y}) \in Nat /\ Into(s \ {y}) \in Nat /\ ~(Sum(s) <= Into(s))
    BY <1>1
  <2> QED
    BY <2>4, <2>5
<1>6. Sum(S) <= Into(S) /\ Sum(S) \in Nat /\ Into(S) \in Nat
  BY <1>1, <1>5
<1> QED
  BY <1>3, <1>4, <1>6 DEF Sum

-----------------------------------------------------------------------------
(* What a command can pay.                                                  *)

(* The fees of the plan, in one transaction or in one for each call, and    *)
(* the second look at them.                                                 *)
FeesOf(calls, split) ==
    IF split THEN SumFunction([i \in DOMAIN calls |-> MaxCost(<<calls[i]>>)])
    ELSE MaxCost(calls)

Covers(entry, split) ==
    CanPay(entry.seen, FeesOf(entry.job.calls, split), WrappingValue(entry.job.calls))

Paid(entry) == Covers(entry, "split" \in entry.yes)

(* A transaction that is part of the plan of its command.                   *)
OnPlan(tx, entry) ==
    IF "split" \in entry.yes
    THEN \E i \in DOMAIN entry.job.calls : tx.calls = <<i>>
    ELSE tx.calls = [i \in DOMAIN entry.job.calls |-> i]

(* Whatever was sent is on a plan that was found to be paid for, no part of *)
(* it twice; ...                                                            *)
SentPaid ==
    /\ \A tx \in pool \cup DOMAIN landed :
          Paid(log[tx.command]) /\ OnPlan(tx, log[tx.command])
    /\ \A t, u \in pool \cup DOMAIN landed :
          t.command = u.command /\ t.calls = u.calls => t = u

(* ... and so is what the current command still has to send, once the user  *)
(* has agreed to the split, and before that as well.                        *)
PayInv ==
    /\ SentPaid
    /\ pc \in Started => "split" \notin Current.yes
    /\ pc = "ask_split" => Covers(Current, TRUE)
    /\ pc \in {"send", "wait"} =>
         Paid(Current) /\ \A i \in 1 .. Len(queue) : OnPlan(queue[i], Current)

(* A step that leaves balance, yes and calls of an entry alone.             *)
SameBill(old, new) ==
    new.seen = old.seen /\ new.yes = old.yes /\ new.job.calls = old.job.calls

LEMMA BillStays ==
    ASSUME NEW old, NEW new, SameBill(old, new)
    PROVE  /\ Paid(new) <=> Paid(old)
           /\ \A tx : OnPlan(tx, new) <=> OnPlan(tx, old)
           /\ \A split : Covers(new, split) <=> Covers(old, split)
<1>1. new.seen = old.seen /\ new.yes = old.yes /\ new.job.calls = old.job.calls
  BY DEF SameBill
<1>2. \A split : Covers(new, split) <=> Covers(old, split)
  BY <1>1 DEF Covers
<1>3. Paid(new) <=> Paid(old)
  BY <1>1, <1>2 DEF Paid
<1>4. \A tx : OnPlan(tx, new) <=> OnPlan(tx, old)
  BY <1>1 DEF OnPlan
<1> QED
  BY <1>2, <1>3, <1>4

LEMMA SentStaysPaid ==
    ASSUME SentPaid, pool' \cup DOMAIN landed' \subseteq pool \cup DOMAIN landed,
           \A tx \in pool \cup DOMAIN landed : SameBill(log[tx.command], log'[tx.command])
    PROVE  SentPaid'
<1>1. ASSUME NEW tx \in pool' \cup DOMAIN landed'
      PROVE  Paid(log'[tx.command]) /\ OnPlan(tx, log'[tx.command])
  BY BillStays DEF SentPaid
<1>2. \A t, u \in pool' \cup DOMAIN landed' :
        t.command = u.command /\ t.calls = u.calls => t = u
  BY DEF SentPaid
<1> QED
  BY <1>1, <1>2 DEF SentPaid

(* The fees of transactions.                                                *)
LEMMA MaxCostIsNat ==
    ASSUME NEW calls \in Seq(Call)
    PROVE  MaxCost(calls) \in Nat
<1> DEFINE fees == [i \in DOMAIN calls |-> calls[i].fee]
<1>1. IsFiniteSet(DOMAIN calls) /\ DOMAIN fees = DOMAIN calls
  <2>1. DOMAIN calls = 1 .. Len(calls) /\ Len(calls) \in Nat
    BY LenProperties
  <2> QED
    BY <2>1, FS_Interval
<1>2. ASSUME NEW i \in DOMAIN calls PROVE fees[i] \in Nat
  <2>1. calls[i] \in Call
    BY LenProperties
  <2> QED
    BY <2>1 DEF Call
<1> HIDE DEF fees
<1>3. SumFunction(fees) \in Nat
  BY <1>1, <1>2, SumOfChosen DEF SumFunction
<1> QED
  BY <1>3, SendAssumption DEF MaxCost, fees

LEMMA CallsInWhole ==
    ASSUME NEW calls \in Seq(Call), NEW tx, CallsOf(tx.command) = calls,
           tx.calls = [i \in DOMAIN calls |-> i]
    PROVE  CallsIn(tx) = calls
<1>1. DOMAIN tx.calls = DOMAIN calls /\ \A i \in DOMAIN calls : tx.calls[i] = i
  OBVIOUS
<1>2. CallsIn(tx) = [i \in DOMAIN calls |-> calls[i]]
  BY <1>1 DEF CallsIn
<1>3. calls = [i \in DOMAIN calls |-> calls[i]]
  BY LenProperties
<1> QED
  BY <1>2, <1>3

LEMMA CallsInSingle ==
    ASSUME NEW tx, NEW i, tx.calls = <<i>>
    PROVE  CallsIn(tx) = <<CallsOf(tx.command)[i]>>
<1>1. DOMAIN tx.calls = 1 .. 1 /\ tx.calls[1] = i
  OBVIOUS
<1>2. CallsIn(tx) = [k \in 1 .. 1 |-> CallsOf(tx.command)[i]]
  BY <1>1 DEF CallsIn
<1> QED
  BY <1>2

LEMMA CostOfWhole ==
    ASSUME IInv, pc # "idle", NEW q, q \in Seq({q[i] : i \in DOMAIN q}), AllInOne(q)
    PROVE  CostOf(q) = FeesOf(Job.calls, FALSE)
<1>1. Job.calls = CallsOf(Command) /\ Job.calls \in Seq(Call)
  BY CurrentHas
<1>2. Len(q) = 1 /\ q[1].command = Command /\ q[1].calls = [i \in DOMAIN Job.calls |-> i]
  BY <1>1 DEF AllInOne, Whole
<1>3. DOMAIN q = {1}
  <2>1. DOMAIN q = 1 .. 1
    BY <1>2
  <2> QED
    BY <2>1
<1>4. CallsIn(q[1]) = Job.calls
  BY <1>1, <1>2, CallsInWhole
<1> DEFINE fees == [i \in DOMAIN q |-> MaxCost(CallsIn(q[i]))]
<1>5. DOMAIN fees = {1} /\ fees[1] = MaxCost(Job.calls) /\ fees[1] \in Nat
  BY <1>1, <1>3, <1>4, MaxCostIsNat
<1>6. CostOf(q) = SumFunctionOnSet(fees, {1})
  BY <1>5 DEF CostOf, SumFunction
<1> HIDE DEF fees
<1>7. IsFiniteSet({1}) /\ IsFiniteSet({}) /\ {1} \ {1} = {}
  BY FS_Singleton, FS_EmptySet
<1>8. SumFunctionOnSet(fees, {1}) = fees[1] + SumFunctionOnSet(fees, {})
  BY <1>5, <1>7, SumOfOne
<1>9. SumFunctionOnSet(fees, {}) = 0
  BY <1>7, SumOfChosen
<1> QED
  BY <1>5, <1>6, <1>8, <1>9 DEF FeesOf

LEMMA CostOfSplit ==
    ASSUME IInv, pc # "idle", NEW n
    PROVE  CostOf(EoaSequence(n)) = FeesOf(Job.calls, TRUE)
<1> DEFINE q == EoaSequence(n)
<1>1. Job.calls = CallsOf(Command)
  BY CurrentHas
<1>2. q = [i \in DOMAIN Job.calls |-> Tx(<<i>>, n + i - 1)]
  BY DEF EoaSequence
<1>3. ASSUME NEW i \in DOMAIN Job.calls  PROVE CallsIn(q[i]) = <<Job.calls[i]>>
  <2>1. q[i].calls = <<i>> /\ q[i].command = Command
    BY <1>2 DEF Tx
  <2> QED
    BY <1>1, <2>1, CallsInSingle
<1>4. DOMAIN q = DOMAIN Job.calls
  BY <1>2
<1> HIDE DEF q
<1>5. [i \in DOMAIN q |-> MaxCost(CallsIn(q[i]))] =
      [i \in DOMAIN Job.calls |-> MaxCost(<<Job.calls[i]>>)]
  BY <1>3, <1>4
<1> QED
  BY <1>5 DEF CostOf, FeesOf, q

(* Steps.  A command that has nothing sent may change its entry, ...        *)
LEMMA TxCommand ==
    ASSUME IInv
    PROVE  /\ \A tx \in pool \cup DOMAIN landed : tx.command \in 1 .. Command
           /\ pc \in Started => \A tx \in pool \cup DOMAIN landed : tx.command # Command
BY DEF IInv, TxInv, Fit, Going, Sent

LEMMA EntrySet ==
    ASSUME log \in Seq(Entry), log' \in Seq(Entry), Command \in 1 .. Command, NEW e,
           log' = [log EXCEPT ![Command] = e]
    PROVE  /\ Command' = Command /\ Current' = e /\ Job' = e.job
           /\ \A c \in 1 .. Command : c # Command => log'[c] = log[c]
<1>1. DOMAIN log = 1 .. Len(log) /\ DOMAIN log' = 1 .. Len(log') /\ DOMAIN log' = DOMAIN log
      /\ Len(log) \in Nat /\ Len(log') \in Nat
  BY LenProperties
<1>2. Len(log') = Len(log)
  BY <1>1
<1>3. log'[Command] = e
  BY <1>1 DEF Command
<1>4. \A c \in 1 .. Command : c # Command => log'[c] = log[c]
  BY <1>1 DEF Command
<1> QED
  BY <1>2, <1>3, <1>4 DEF Command, Current, Job

LEMMA EntryPays ==
    ASSUME IInv, IInv', PayInv, pc \in Started, UNCHANGED <<pool, landed>>, NEW e,
           log' = [log EXCEPT ![Command] = e]
    PROVE  SentPaid' /\ Command' = Command /\ Current' = e /\ Job' = e.job
<1>1. Command \in 1 .. Command /\ log \in Seq(Entry) /\ log' \in Seq(Entry)
  BY CurrentHas DEF IInv, Shapes, Started
<1>2. /\ Command' = Command /\ Current' = e /\ Job' = e.job
      /\ \A c \in 1 .. Command : c # Command => log'[c] = log[c]
  BY <1>1, EntrySet
<1>3. \A tx \in pool \cup DOMAIN landed : SameBill(log[tx.command], log'[tx.command])
  BY <1>2, TxCommand DEF SameBill
<1>4. SentPaid'
  BY <1>3, SentStaysPaid DEF PayInv
<1> QED
  BY <1>2, <1>4

(* ... and a command that ends keeps what its plan says.                    *)
LEMMA EndBills ==
    ASSUME IInv, pc # "idle", NEW report, End(report)
    PROVE  \A c \in 1 .. Command : SameBill(log[c], log'[c])
<1>1. log \in Seq(Entry) /\ Command \in 1 .. Command
  BY CurrentHas
<1>2. log' = [log EXCEPT ![Command].report = report]
  BY DEF End
<1>3. ASSUME NEW c \in 1 .. Command PROVE SameBill(log[c], log'[c])
  <2>1. log[c] \in Entry /\ c \in DOMAIN log
    BY <1>1, LogHas
  <2>2. log'[c] = log[c] \/ log'[c] = [log[c] EXCEPT !.report = report]
    BY <1>2, <2>1
  <2> QED
    BY <2>1, <2>2 DEF SameBill, Entry
<1> QED
  BY <1>3

LEMMA EndPays ==
    ASSUME IInv, PayInv, pc # "idle", NEW report, End(report), pool' = pool, landed' = landed
    PROVE  PayInv'
<1>1. \A tx \in pool \cup DOMAIN landed : SameBill(log[tx.command], log'[tx.command])
  BY EndBills, TxCommand
<1>2. SentPaid'
  BY <1>1, SentStaysPaid DEF PayInv
<1>3. pc' = "idle"
  BY DEF End
<1> QED
  BY <1>2, <1>3 DEF PayInv, Started

LEMMA StartPays ==
    ASSUME IInv, IInv', PayInv, NEW job, NEW at \in {"cost", "ask"}, Start(job, at)
    PROVE  PayInv'
<1> DEFINE e == [job |-> job, seen |-> balance, yes |-> {}, report |-> "none"]
<1>1. /\ log \in Seq(Entry) /\ log' \in Seq(Entry) /\ log' = Append(log, e)
      /\ UNCHANGED <<pool, landed>> /\ pc' = at
  BY DEF Start, IInv, Shapes
<1> HIDE DEF e
<1>2. Command' = Command + 1 /\ log'[Command + 1] = e /\ \A c \in 1 .. Command : log'[c] = log[c]
  <2>1. e \in Entry
    <3>1. Len(log') = Len(log) + 1 /\ log'[Len(log) + 1] = e
      BY <1>1
    <3>2. Len(log) \in Nat /\ Len(log) + 1 \in 1 .. Len(log')
      BY <1>1, <3>1
    <3> QED
      BY <1>1, <3>1, <3>2
  <2> QED
    BY <1>1, <2>1, AppendProperties DEF Command
<1>3. \A tx \in pool \cup DOMAIN landed : SameBill(log[tx.command], log'[tx.command])
  BY <1>2, TxCommand DEF SameBill
<1>4. SentPaid'
  BY <1>1, <1>3, SentStaysPaid DEF PayInv
<1>5. Current'.yes = {}
  BY <1>2 DEF Current, e
<1> QED
  BY <1>1, <1>4, <1>5 DEF PayInv, Started

LEMMA CostPays == ASSUME IInv, IInv', PayInv, Cost PROVE PayInv'
<1> DEFINE calls == IF Job.kind = "transfer"
                    THEN PickValue(Current.seen, Job.calls, Job.max) ELSE Job.calls
           e == [Current EXCEPT !.job = [@ EXCEPT !.calls = calls]]
<1>1. pc = "cost" /\ UNCHANGED <<pool, landed>>
  BY DEF Cost, chainVars
<1>2. \/ log' = [log EXCEPT ![Command].job.calls = calls] /\ pc' = "ask"
      \/ End("failed")
  BY DEF Cost
<1> HIDE DEF calls
<1>3. ASSUME log' = [log EXCEPT ![Command].job.calls = calls], pc' = "ask" PROVE PayInv'
  <2>1. log' = [log EXCEPT ![Command] = e]
    BY <1>3 DEF Current
  <2>2. Current \in Entry
    BY <1>1, CurrentHas
  <2>3. e.yes = Current.yes
    BY <2>2 DEF Entry
  <2> HIDE DEF e
  <2>4. SentPaid' /\ Current' = e
    BY <1>1, <2>1, EntryPays DEF Started
  <2> QED
    BY <1>1, <1>3, <2>3, <2>4 DEF PayInv, Started
<1> QED
  BY <1>1, <1>2, <1>3, EndPays

LEMMA AskPays == ASSUME IInv, IInv', PayInv, NEW yes \in BOOLEAN, Ask(yes) PROVE PayInv'
<1> DEFINE e == [Current EXCEPT !.yes = @ \cup {"plan"}]
<1>1. pc = "ask" /\ UNCHANGED <<pool, landed>>
  BY DEF Ask, chainVars
<1>2. \/ log' = [log EXCEPT ![Command] = e] /\ pc' \in {"refresh", "plan"}
      \/ End("dry")
  BY DEF Ask, Current
<1>3. ASSUME log' = [log EXCEPT ![Command] = e], pc' \in {"refresh", "plan"} PROVE PayInv'
  <2>1. Current \in Entry
    BY <1>1, CurrentHas
  <2>2. e.yes = Current.yes \cup {"plan"}
    BY <2>1 DEF Entry
  <2> HIDE DEF e
  <2>3. SentPaid' /\ Current' = e
    BY <1>1, <1>3, EntryPays DEF Started
  <2> QED
    BY <1>1, <1>3, <2>2, <2>3 DEF PayInv, Started
<1> QED
  BY <1>1, <1>2, <1>3, EndPays

LEMMA RefreshPays == ASSUME IInv, IInv', PayInv, RefreshBalance PROVE PayInv'
<1> DEFINE e == [Current EXCEPT !.seen = balance]
<1>1. /\ pc = "refresh" /\ pc' = "plan" /\ UNCHANGED <<pool, landed>>
      /\ log' = [log EXCEPT ![Command] = e]
  BY DEF RefreshBalance, Current, chainVars
<1>2. Current \in Entry
  BY <1>1, CurrentHas
<1>3. e.yes = Current.yes
  BY <1>2 DEF Entry
<1> HIDE DEF e
<1>4. SentPaid' /\ Current' = e
  BY <1>1, EntryPays DEF Started
<1> QED
  BY <1>1, <1>3, <1>4 DEF PayInv, Started

(* With the log as it is, what was sent stays paid for.                     *)
LEMMA SameLogPays ==
    ASSUME SentPaid, log' = log, pool' \cup DOMAIN landed' \subseteq pool \cup DOMAIN landed
    PROVE  SentPaid' /\ Command' = Command /\ Current' = Current /\ Job' = Job
<1>1. SentPaid'
  BY SentStaysPaid DEF SameBill
<1> QED
  BY <1>1 DEF Command, Current, Job

LEMMA PlanPays == ASSUME IInv, IInv', PayInv, Plan PROVE PayInv'
<1>1. pc = "plan" /\ UNCHANGED <<pool, landed>>
  BY DEF Plan, chainVars
<1>2. PICK n : IF ~Job.smart /\ Len(Job.calls) > 1
               THEN queue' = <<Tx(AllCalls, n)>> /\ pc' = "simulate" /\ log' = log
               ELSE SendIfPaid(<<Tx(AllCalls, n)>>, "send")
  BY DEF Plan
<1>3. CASE End("failed")
  BY <1>1, <1>3, EndPays
<1>4. CASE queue' = <<Tx(AllCalls, n)>> /\ pc' = "simulate" /\ log' = log
  BY <1>1, <1>4, SameLogPays DEF PayInv, Started
<1>5. CASE /\ queue' = <<Tx(AllCalls, n)>> /\ pc' = "send" /\ log' = log
           /\ CanPay(Current.seen, CostOf(<<Tx(AllCalls, n)>>), WrappingValue(Job.calls))
  <2>1. SentPaid' /\ Current' = Current
    BY <1>1, <1>5, SameLogPays DEF PayInv
  <2>2. "split" \notin Current.yes
    BY <1>1 DEF PayInv, Started
  <2>3. CostOf(<<Tx(AllCalls, n)>>) = FeesOf(Job.calls, FALSE)
    BY <1>1, OneTx, WholeQueue, CostOfWhole
  <2>4. Paid(Current)
    <3>1. FeesOf(Job.calls, "split" \in Current.yes) = FeesOf(Job.calls, FALSE)
      BY <2>2 DEF FeesOf
    <3>2. Job.calls = Current.job.calls
      BY DEF Job
    <3> QED
      BY <1>5, <2>3, <3>1, <3>2 DEF Paid, Covers
  <2>5. Len(queue') = 1 /\ OnPlan(queue'[1], Current)
    <3>1. Len(queue') = 1 /\ queue'[1] = Tx(AllCalls, n)
      BY <1>5
    <3>2. queue'[1].calls = [i \in DOMAIN Current.job.calls |-> i]
      BY <3>1 DEF Tx, AllCalls, Job
    <3> QED
      BY <2>2, <3>1, <3>2 DEF OnPlan
  <2>6. \A i \in 1 .. Len(queue') : i = 1
    BY <2>5
  <2> QED
    BY <1>5, <2>1, <2>4, <2>5, <2>6 DEF PayInv, Started
<1> QED
  BY <1>2, <1>3, <1>4, <1>5 DEF SendIfPaid

LEMMA SimulatePays ==
    ASSUME IInv, IInv', PayInv, NEW rejected \in BOOLEAN, Simulate(rejected) PROVE PayInv'
<1>1. pc = "simulate" /\ UNCHANGED <<pool, landed>>
  BY DEF Simulate, chainVars
<1>2. CASE End("failed")
  BY <1>1, <1>2, EndPays
<1>3. "split" \notin Current.yes /\ AllInOne(queue)
  BY <1>1 DEF PayInv, Started, IInv, Going
<1>4. ASSUME queue' = queue, pc' = "send", log' = log,
             CanPay(Current.seen, CostOf(queue), WrappingValue(Job.calls))
      PROVE  PayInv'
  <2>1. SentPaid' /\ Current' = Current
    BY <1>1, <1>4, SameLogPays DEF PayInv
  <2>2. CostOf(queue) = FeesOf(Job.calls, FALSE)
    <3>1. queue \in Seq({queue[i] : i \in DOMAIN queue})
      BY DEF IInv, Shapes
    <3> QED
      BY <1>1, <1>3, <3>1, CostOfWhole
  <2>3. Paid(Current)
    <3>1. FeesOf(Job.calls, "split" \in Current.yes) = FeesOf(Job.calls, FALSE)
      BY <1>3 DEF FeesOf
    <3>2. Job.calls = Current.job.calls
      BY DEF Job
    <3> QED
      BY <1>4, <2>2, <3>1, <3>2 DEF Paid, Covers
  <2>4. Len(queue) = 1 /\ OnPlan(queue[1], Current)
    <3>1. Len(queue) = 1 /\ queue[1].calls = [i \in DOMAIN Current.job.calls |-> i]
      BY <1>3 DEF AllInOne, Whole, CallsOf, Current
    <3> QED
      BY <1>3, <3>1 DEF OnPlan
  <2>5. \A i \in 1 .. Len(queue) : i = 1
    BY <2>4
  <2> QED
    BY <1>4, <2>1, <2>3, <2>4, <2>5 DEF PayInv, Started
<1>5. ASSUME NEW n, queue' = EoaSequence(n), pc' = "ask_split", log' = log,
             CanPay(Current.seen, CostOf(EoaSequence(n)), WrappingValue(Job.calls))
      PROVE  PayInv'
  <2>1. SentPaid' /\ Current' = Current
    BY <1>1, <1>5, SameLogPays DEF PayInv
  <2>2. CostOf(EoaSequence(n)) = FeesOf(Job.calls, TRUE)
    BY <1>1, CostOfSplit
  <2>3. Covers(Current, TRUE)
    BY <1>5, <2>2 DEF Covers, Job
  <2> QED
    BY <1>3, <1>5, <2>1, <2>3 DEF PayInv, Started
<1> QED
  BY <1>2, <1>4, <1>5 DEF Simulate, SendIfPaid

LEMMA AskSplitPays ==
    ASSUME IInv, IInv', PayInv, NEW yes \in BOOLEAN, AskSplit(yes) PROVE PayInv'
<1> DEFINE e == [Current EXCEPT !.yes = @ \cup {"split"}]
<1>1. pc = "ask_split" /\ UNCHANGED <<pool, landed>>
  BY DEF AskSplit, chainVars
<1>2. \/ log' = [log EXCEPT ![Command] = e] /\ pc' = "send" /\ queue' = queue
      \/ End("failed")
  BY DEF AskSplit, Current
<1>3. ASSUME log' = [log EXCEPT ![Command] = e], pc' = "send", queue' = queue PROVE PayInv'
  <2>1. Current \in Entry
    BY <1>1, CurrentHas
  <2>2. "split" \in e.yes /\ e.seen = Current.seen /\ e.job = Current.job
    BY <2>1 DEF Entry
  <2> HIDE DEF e
  <2>3. SentPaid' /\ Current' = e
    BY <1>1, <1>3, EntryPays DEF Started
  <2>4. Paid(e)
    BY <1>1, <2>2 DEF PayInv, Paid, Covers
  <2>5. ASSUME NEW i \in 1 .. Len(queue) PROVE OnPlan(queue[i], e)
    <3>1. /\ OneByOne(queue) /\ Len(queue) = Len(Job.calls)
          /\ Len(Job.calls) \in Nat /\ DOMAIN Job.calls = 1 .. Len(Job.calls)
      BY <1>1, CurrentHas DEF IInv, Going
    <3>2. queue[i].calls = <<Len(Job.calls) - Len(queue) + i>>
      BY <3>1 DEF OneByOne
    <3>3. Len(Job.calls) - Len(queue) + i = i
      BY <3>1
    <3> QED
      BY <2>2, <3>1, <3>2, <3>3 DEF OnPlan, Job
  <2> QED
    BY <1>3, <2>3, <2>4, <2>5 DEF PayInv, Started
<1> QED
  BY <1>1, <1>2, <1>3, EndPays

(* The first of the queue joins what was sent; no part of the plan goes out *)
(* twice.                                                                   *)
LEMMA HeadPays ==
    ASSUME IInv, PayInv, pc = "send", landed' = landed, pool' = pool \cup {Head(queue)},
           \A c \in 1 .. Command : SameBill(log[c], log'[c])
    PROVE  SentPaid'
<1> DEFINE h == Head(queue)
<1>1. h = queue[1] /\ Len(queue) \in Nat \ {0} /\ h.command = Command
  BY HeadIsFit
<1>2. Command \in 1 .. Command /\ Current = log[Command]
  BY CurrentHas
<1>3. Paid(Current) /\ OnPlan(h, Current)
  BY <1>1 DEF PayInv
<1>4. \A tx \in pool \cup DOMAIN landed : tx.command = Command => tx.calls # h.calls
  BY <1>1 DEF IInv, Going, Unsent, Sent
<1> HIDE DEF h
<1>5. pool' \cup DOMAIN landed' = (pool \cup DOMAIN landed) \cup {h}
  BY DEF h
<1>6. ASSUME NEW tx \in pool' \cup DOMAIN landed'
      PROVE  Paid(log'[tx.command]) /\ OnPlan(tx, log'[tx.command])
  <2>1. tx.command \in 1 .. Command /\ Paid(log[tx.command]) /\ OnPlan(tx, log[tx.command])
    BY <1>1, <1>2, <1>3, <1>5, TxCommand DEF PayInv, SentPaid
  <2> QED
    BY <2>1, BillStays
<1>7. \A t, u \in pool' \cup DOMAIN landed' :
        t.command = u.command /\ t.calls = u.calls => t = u
  BY <1>1, <1>4, <1>5 DEF PayInv, SentPaid
<1> QED
  BY <1>6, <1>7 DEF SentPaid

LEMMA SendPays == ASSUME IInv, IInv', PayInv, Send PROVE PayInv'
<1>1. /\ pc = "send" /\ pool' = pool \cup {Head(queue)} /\ pc' = "wait"
      /\ UNCHANGED <<landed, log, queue>>
  BY DEF Send, chainVars
<1>2. SentPaid'
  BY <1>1, HeadPays DEF SameBill
<1>3. Current' = Current
  BY <1>1 DEF Current, Command
<1> QED
  BY <1>1, <1>2, <1>3 DEF PayInv, Started

LEMMA SendUnansweredPays == ASSUME IInv, PayInv, SendUnanswered PROVE PayInv'
<1>1. /\ pc = "send" /\ pool' = pool \cup {Head(queue)} /\ End("failed")
      /\ landed' = landed /\ pc' = "idle"
  BY DEF SendUnanswered, End, chainVars
<1>2. SentPaid'
  BY <1>1, EndBills, HeadPays
<1> QED
  BY <1>1, <1>2 DEF PayInv, Started

LEMMA ReceiptPays == ASSUME IInv, PayInv, Receipt PROVE PayInv'
<1>1. pc = "wait" /\ UNCHANGED <<pool, landed>>
  BY DEF Receipt, chainVars
<1>2. \/ \E report \in {"ok", "failed"} : End(report)
      \/ queue' = Tail(queue) /\ log' = log /\ pc' \in {"send", "confirm"}
  BY DEF Receipt
<1>3. ASSUME queue' = Tail(queue), log' = log, pc' \in {"send", "confirm"} PROVE PayInv'
  <2>1. SentPaid' /\ Current' = Current
    BY <1>1, <1>3, SameLogPays DEF PayInv
  <2>2. queue # <<>> /\ queue \in Seq({queue[i] : i \in DOMAIN queue})
    BY <1>1 DEF IInv, TypeOK, Shapes
  <2>3. /\ Len(queue) \in Nat \ {0} /\ Len(queue') = Len(queue) - 1
        /\ \A i \in 1 .. Len(queue) - 1 : queue'[i] = queue[i + 1]
    BY <1>3, <2>2, TailHas
  <2>4. ASSUME NEW i \in 1 .. Len(queue') PROVE OnPlan(queue'[i], Current)
    <3>1. i + 1 \in 1 .. Len(queue) /\ queue'[i] = queue[i + 1]
      BY <2>3
    <3> QED
      BY <1>1, <3>1 DEF PayInv
  <2>5. Paid(Current)
    BY <1>1 DEF PayInv
  <2> QED
    BY <1>3, <2>1, <2>4, <2>5 DEF PayInv, Started
<1> QED
  BY <1>1, <1>2, <1>3, EndPays

LEMMA ChainPays ==
    ASSUME PayInv, UNCHANGED <<log, pc, queue>>,
           pool' \cup DOMAIN landed' \subseteq pool \cup DOMAIN landed
    PROVE  PayInv'
<1>1. SentPaid' /\ Current' = Current
  BY SameLogPays DEF PayInv
<1> QED
  BY <1>1 DEF PayInv, Started

LEMMA NextPays == ASSUME IInv, PayInv, [Next]_vars PROVE PayInv'
<1>1. IInv'
  BY NextKeeps
<1>2. ASSUME NEW job \in Jobs,
             Transfer(job) \/ TransactRaw(job) \/ Claim(job) \/ PublishEpochRoot(job)
      PROVE  PayInv'
  BY <1>1, <1>2, StartPays DEF Transfer, TransactRaw, Claim, PublishEpochRoot
<1>3. CASE Confirm \/ GiveUp \/ Fail
  <2>1. pc # "idle" /\ UNCHANGED <<pool, landed>> /\ \E report : End(report)
    BY <1>3 DEF Confirm, GiveUp, Fail, chainVars
  <2> QED
    BY <2>1, EndPays
<1>4. CASE Wallet
  BY <1>1, <1>3, <1>4, CostPays, RefreshPays, PlanPays, SendPays, ReceiptPays,
     SimulatePays, AskPays, AskSplitPays DEF Wallet
<1>5. ASSUME NEW tx \in pool, NEW bad \in SUBSET DOMAIN tx.calls, Include(tx, bad)
      PROVE  PayInv'
  <2>1. /\ UNCHANGED <<log, pc, queue>> /\ pool' = pool \ {tx}
        /\ DOMAIN landed' = DOMAIN landed \cup {tx}
    BY <1>5 DEF Include
  <2> QED
    BY <2>1, ChainPays
<1>6. CASE (\E tx \in pool : Drop(tx)) \/ (\E left \in 0 .. balance : Elsewhere(left))
           \/ NewBlock \/ UNCHANGED vars
  <2>1. UNCHANGED <<log, pc, queue, landed>> /\ pool' \subseteq pool
    BY <1>6 DEF Drop, Elsewhere, NewBlock, vars, chainVars
  <2> QED
    BY <2>1, ChainPays
<1> QED
  BY <1>2, <1>3, <1>4, <1>5, <1>6, SendUnansweredPays DEF Next, Network

LEMMA InitPays == ASSUME Init PROVE PayInv
BY DEF Init, PayInv, SentPaid, Started

LEMMA SmallRest ==
    ASSUME NEW M \in Nat \ {0}, NEW x \in Nat, x < M
    PROVE  x % M = x
OBVIOUS

LEMMA TrueValueIsNat ==
    ASSUME NEW calls \in Seq(Call)
    PROVE  TrueValue(calls) \in Nat
<1> DEFINE v == [i \in DOMAIN calls |-> calls[i].value]
<1>1. IsFiniteSet(DOMAIN calls) /\ DOMAIN v = DOMAIN calls
  <2>1. DOMAIN calls = 1 .. Len(calls) /\ Len(calls) \in Nat
    BY LenProperties
  <2> QED
    BY <2>1, FS_Interval
<1>2. ASSUME NEW i \in DOMAIN calls PROVE v[i] \in Nat
  <2>1. calls[i] \in Call
    BY LenProperties
  <2> QED
    BY <2>1, SendAssumption DEF Call
<1> HIDE DEF v
<1>3. SumFunction(v) \in Nat
  BY <1>1, <1>2, SumOfChosen DEF SumFunction
<1> QED
  BY <1>3 DEF TrueValue, v

(* The sum of the wallet wraps, and is the true one as long as that fits.   *)
LEMMA WrapsNot ==
    ASSUME NEW calls \in Seq(Call), TrueValue(calls) < Mod
    PROVE  WrappingValue(calls) = TrueValue(calls)
<1> DEFINE S == DOMAIN calls
           v == [i \in S |-> calls[i].value]
           Sum(s) == SumFunctionOnSet(v, s)
           H == [p \in S \X Nat |-> (p[2] + calls[p[1]].value) % Mod]
           Is(h) == h = [s \in SUBSET S |-> IF s = {} THEN 0
                           ELSE (h[s \ {Chosen(s)}] + calls[Chosen(s)].value) % Mod]
           h == CHOOSE h : Is(h)
<1>1. IsFiniteSet(S)
  <2>1. S = 1 .. Len(calls) /\ Len(calls) \in Nat
    BY LenProperties
  <2> QED
    BY <2>1, FS_Interval
<1>2. ASSUME NEW i \in S PROVE v[i] = calls[i].value /\ v[i] \in Nat /\ calls[i].value \in Nat
  <2>1. calls[i] \in Call
    BY LenProperties
  <2> QED
    BY <2>1, SendAssumption DEF Call
<1>3. H \in [S \X Nat -> Nat]
  <2> SUFFICES ASSUME NEW p \in S \X Nat PROVE (p[2] + calls[p[1]].value) % Mod \in Nat
    OBVIOUS
  <2>1. p[1] \in S /\ p[2] \in Nat
    OBVIOUS
  <2>2. p[2] + calls[p[1]].value \in Nat
    BY <1>2, <2>1
  <2> QED
    BY <2>2, SendAssumption
<1> HIDE DEF S
<1>4. PICK g \in [SUBSET S -> Nat] : \A s \in SUBSET S : FoldsTo(g, H, 0, s)
  <2> HIDE DEF H
  <2> QED
    BY <1>1, <1>3, FoldExists
<1>5. Is(g)
  <2>1. ASSUME NEW s \in SUBSET S
        PROVE  g[s] = IF s = {} THEN 0
                      ELSE (g[s \ {Chosen(s)}] + calls[Chosen(s)].value) % Mod
    <3>1. CASE s = {}
      BY <1>4, <3>1 DEF FoldsTo
    <3>2. CASE s # {}
      <4>1. <<Chosen(s), g[s \ {Chosen(s)}]>> \in S \X Nat
        BY <1>1, <3>2, ChosenLess
      <4>2. H[<<Chosen(s), g[s \ {Chosen(s)}]>>] =
              (g[s \ {Chosen(s)}] + calls[Chosen(s)].value) % Mod
        BY <4>1
      <4> HIDE DEF H
      <4> QED
        BY <1>4, <3>2, <4>2 DEF FoldsTo
    <3> QED
      BY <3>1, <3>2
  <2> QED
    BY <2>1
<1>6. Is(h)
  BY <1>5
<1>7. WrappingValue(calls) = h[S]
  BY Zenon DEF WrappingValue, FoldSeq, FoldFunction, FoldFunctionOnSet, MapThenFoldSet, Chosen, S
<1>8. TrueValue(calls) = Sum(S)
  BY DEF TrueValue, SumFunction, S
<1>9. ASSUME NEW s \in SUBSET S
      PROVE  h[s] = IF s = {} THEN 0
                    ELSE (h[s \ {Chosen(s)}] + calls[Chosen(s)].value) % Mod
  BY <1>6
<1> HIDE DEF h, v
<1>10. ASSUME NEW s \in SUBSET S
       PROVE  /\ Sum(s) \in Nat /\ Sum(s) < Mod
              /\ s = {} => Sum(s) = 0
              /\ s # {} => /\ Chosen(s) \in s
                           /\ Sum(s) = v[Chosen(s)] + Sum(s \ {Chosen(s)})
  <2>1. IsFiniteSet(s) /\ \A i \in s : v[i] \in Nat
    BY <1>1, <1>2, FS_Subset
  <2>2. Sum(s) <= Sum(S) /\ Sum(S) \in Nat
    BY <1>1, <1>2, SumOfPart, SumOfChosen
  <2>3. Sum(s) \in Nat
    BY <2>1, SumOfChosen
  <2>4. Sum(s) < Mod
    <3> HIDE DEF Sum
    <3> QED
      BY <1>8, <2>2, <2>3, SendAssumption
  <2>5. s # {} => Chosen(s) \in s
    BY DEF Chosen
  <2> QED
    BY <2>1, <2>3, <2>4, <2>5, SumOfChosen
<1> HIDE DEF Sum
<1> DEFINE Bad == {s \in SUBSET S : h[s] # Sum(s)}
<1>11. Bad = {}
  <2> SUFFICES ASSUME Bad # {} PROVE FALSE
    OBVIOUS
  <2>1. PICK s \in Bad : \A x \in s : s \ {x} \notin Bad
    <3>1. Bad \in SUBSET SUBSET S
      OBVIOUS
    <3> HIDE DEF Bad
    <3> QED
      BY <1>1, <3>1, SmallestSet
  <2>2. s # {}
    BY <1>9, <1>10
  <2> DEFINE c == Chosen(s)
             t == s \ {Chosen(s)}
  <2>3. c \in S /\ t \in SUBSET S /\ Sum(s) = v[c] + Sum(t) /\ h[t] = Sum(t)
    BY <1>10, <2>1, <2>2
  <2>4. h[s] = (h[t] + calls[c].value) % Mod
    BY <1>9, <2>2
  <2> HIDE DEF c, t
  <2>5. v[c] = calls[c].value /\ v[c] \in Nat /\ Sum(t) \in Nat /\ Sum(s) \in Nat /\ Sum(s) < Mod
    BY <1>2, <1>10, <2>3
  <2>6. h[t] + calls[c].value = Sum(s)
    BY <2>3, <2>5
  <2>7. h[s] = Sum(s)
    BY <2>4, <2>5, <2>6, SmallRest, SendAssumption
  <2> QED
    BY <2>7
<1> QED
  BY <1>7, <1>8, <1>10, <1>11

(* What is sent of a plan costs no more than the plan.                      *)
LEMMA SentCostsNoMore ==
    ASSUME IInv, PayInv, NEW c \in 1 .. Command
    PROVE  /\ PlannedFees(c) = FeesOf(CallsOf(c), "split" \in log[c].yes)
           /\ PlannedFees(c) \in Nat
           /\ SumFunction([tx \in Sent(c) |-> MaxCost(CallsIn(tx))]) \in Nat
           /\ SumFunction([tx \in Sent(c) |-> MaxCost(CallsIn(tx))]) <= PlannedFees(c)
<1> DEFINE calls == CallsOf(c)
           N == DOMAIN calls
           f == [tx \in Sent(c) |-> MaxCost(CallsIn(tx))]
           single == [i \in N |-> MaxCost(<<calls[i]>>)]
<1>1. /\ calls \in Seq(Call) /\ calls = log[c].job.calls /\ IsFiniteSet(N)
      /\ \A i \in N : calls[i] \in Call
  <2>1. calls \in Seq(Call) /\ N = 1 .. Len(calls) /\ Len(calls) \in Nat
    BY LogHas DEF IInv, Shapes
  <2>2. \A i \in N : calls[i] \in Call
    BY <2>1
  <2>3. IsFiniteSet(N)
    BY <2>1, FS_Interval
  <2>4. calls = log[c].job.calls
    BY DEF CallsOf
  <2> QED
    BY <2>1, <2>2, <2>3, <2>4
<1>2. /\ \A tx \in Sent(c) : tx.command = c /\ OnPlan(tx, log[c])
      /\ \A t, u \in Sent(c) : t.calls = u.calls => t = u
  BY DEF Sent, PayInv, SentPaid
<1>3. PlannedFees(c) = FeesOf(calls, "split" \in log[c].yes)
  BY DEF PlannedFees, FeesOf
<1> HIDE DEF calls, N
<1>4. CASE "split" \in log[c].yes
  <2>1. PlannedFees(c) = SumFunctionOnSet(single, N)
    BY <1>4 DEF PlannedFees, SumFunction, N, calls
  <2>2. ASSUME NEW i \in N PROVE single[i] = MaxCost(<<calls[i]>>) /\ single[i] \in Nat
    <3>1. <<calls[i]>> \in Seq(Call)
      BY <1>1
    <3> QED
      BY <3>1, MaxCostIsNat
  <2> DEFINE m == [tx \in Sent(c) |-> tx.calls[1]]
  <2>3. ASSUME NEW tx \in Sent(c)
        PROVE  /\ m[tx] \in N /\ tx.calls = <<m[tx]>>
               /\ f[tx] = single[m[tx]]
    <3>1. PICK i \in N : tx.calls = <<i>>
      BY <1>1, <1>2, <1>4 DEF OnPlan, N
    <3>2. m[tx] = i
      BY <3>1
    <3>3. CallsIn(tx) = <<calls[i]>>
      BY <1>2, <3>1, CallsInSingle DEF calls
    <3>4. f[tx] = MaxCost(<<calls[i]>>)
      BY <3>3
    <3> HIDE DEF m, f
    <3> QED
      BY <2>2, <3>1, <3>2, <3>4
  <2>4. m \in [Sent(c) -> N] /\ \A t, u \in Sent(c) : m[t] = m[u] => t = u
    <3>1. m \in [Sent(c) -> N]
      BY <2>3
    <3> HIDE DEF m
    <3>2. ASSUME NEW t \in Sent(c), NEW u \in Sent(c), m[t] = m[u] PROVE t = u
      <4>1. t.calls = <<m[t]>> /\ u.calls = <<m[u]>>
        BY <2>3
      <4>2. t.calls = u.calls
        BY <3>2, <4>1
      <4> QED
        BY <1>2, <4>2
    <3> QED
      BY <3>1, <3>2
  <2> HIDE DEF m, single
  <2>5. IsFiniteSet(Sent(c))
    <3>1. m \in Injection(Sent(c), N)
      BY <2>4 DEF Injection, IsInjective
    <3> QED
      BY <1>1, <3>1, FS_Injection
  <2>6. DOMAIN f = Sent(c)
    OBVIOUS
  <2> HIDE DEF f
  <2>7. ASSUME NEW tx \in Sent(c) PROVE f[tx] \in Nat /\ f[tx] <= single[m[tx]]
    <3>1. f[tx] = single[m[tx]] /\ single[m[tx]] \in Nat
      BY <2>2, <2>3
    <3> QED
      BY <3>1
  <2>8. SumFunctionOnSet(f, Sent(c)) <= SumFunctionOnSet(single, N)
    BY <1>1, <2>2, <2>4, <2>5, <2>7, SumInto
  <2>9. SumFunctionOnSet(f, Sent(c)) \in Nat /\ SumFunctionOnSet(single, N) \in Nat
    BY <1>1, <2>2, <2>5, <2>7, SumOfChosen
  <2>10. SumFunction(f) \in Nat /\ PlannedFees(c) \in Nat /\ SumFunction(f) <= PlannedFees(c)
    BY <2>1, <2>6, <2>8, <2>9 DEF SumFunction
  <2> QED
    BY <1>3, <2>10 DEF f, calls
<1>5. CASE "split" \notin log[c].yes
  <2>1. PlannedFees(c) = MaxCost(calls) /\ MaxCost(calls) \in Nat
    BY <1>1, <1>5, MaxCostIsNat DEF PlannedFees, calls
  <2>2. ASSUME NEW tx \in Sent(c)
        PROVE  f[tx] = MaxCost(calls) /\ tx.calls = [i \in N |-> i]
    <3>1. tx.calls = [i \in N |-> i]
      BY <1>1, <1>2, <1>5 DEF OnPlan, N
    <3>2. CallsIn(tx) = calls
      BY <1>1, <1>2, <3>1, CallsInWhole DEF calls, N
    <3> QED
      BY <3>1, <3>2
  <2>3. \A t, u \in Sent(c) : t = u
    BY <1>2, <2>2
  <2>4. DOMAIN f = Sent(c)
    OBVIOUS
  <2> HIDE DEF f
  <2>5. CASE Sent(c) = {}
    <3>1. SumFunctionOnSet(f, {}) = 0
      BY FS_EmptySet, SumOfChosen
    <3>2. SumFunction(f) = 0
      BY <2>4, <2>5, <3>1 DEF SumFunction
    <3> QED
      BY <1>3, <2>1, <3>2 DEF f, calls
  <2>6. ASSUME NEW tx \in Sent(c)
        PROVE  SumFunction(f) = MaxCost(calls)
    <3>1. Sent(c) = {tx} /\ IsFiniteSet({tx}) /\ IsFiniteSet({}) /\ {tx} \ {tx} = {}
      BY <2>3, FS_Singleton, FS_EmptySet
    <3>2. f[tx] = MaxCost(calls) /\ f[tx] \in Nat
      BY <2>1, <2>2
    <3>3. SumFunctionOnSet(f, {tx}) = f[tx] + SumFunctionOnSet(f, {})
      BY <3>1, <3>2, SumOfOne
    <3>4. SumFunctionOnSet(f, {}) = 0
      BY <3>1, SumOfChosen
    <3> QED
      BY <2>4, <3>1, <3>2, <3>3, <3>4 DEF SumFunction
  <2>7. CASE Sent(c) # {}
    <3>1. SumFunction(f) = MaxCost(calls)
      BY <2>6, <2>7
    <3> QED
      BY <1>3, <2>1, <3>1 DEF f, calls
  <2> QED
    BY <2>5, <2>7
<1> QED
  BY <1>4, <1>5

LEMMA PaidIsAffordable == ASSUME IInv, PayInv PROVE SentIsAffordable
<1> SUFFICES ASSUME NEW c \in 1 .. Command, Sent(c) # {},
                    TrueValue(CallsOf(c)) + PlannedFees(c) < Mod
             PROVE  TrueValue(CallsOf(c))
                      + SumFunction([tx \in Sent(c) |-> MaxCost(CallsIn(tx))]) <= log[c].seen
  BY DEF SentIsAffordable
<1> DEFINE V == TrueValue(CallsOf(c))
           P == PlannedFees(c)
           F == SumFunction([tx \in Sent(c) |-> MaxCost(CallsIn(tx))])
<1>1. P = FeesOf(CallsOf(c), "split" \in log[c].yes) /\ P \in Nat /\ F \in Nat /\ F <= P
  BY SentCostsNoMore
<1>2. CallsOf(c) \in Seq(Call) /\ log[c].seen \in 0 .. Mod - 1 /\ CallsOf(c) = log[c].job.calls
  BY LogHas DEF IInv, Shapes, TypeOK, CallsOf
<1>3. Paid(log[c])
  BY DEF PayInv, SentPaid, Sent
<1>4. V \in Nat
  BY <1>2, TrueValueIsNat
<1>5. V < Mod
  <2> HIDE DEF V, P, F
  <2>1. V + P < Mod
    BY DEF V, P
  <2> QED
    BY <1>1, <1>4, <2>1, SendAssumption
<1>6. WrappingValue(CallsOf(c)) = V
  BY <1>2, <1>5, WrapsNot
<1>7. log[c].seen >= (P + V) % Mod
  BY <1>1, <1>2, <1>3, <1>6 DEF Paid, Covers, CanPay
<1> HIDE DEF V, P, F
<1>8. P + V \in Nat /\ P + V < Mod
  BY <1>1, <1>4 DEF V, P
<1>9. (P + V) % Mod = P + V
  BY <1>8, SmallRest, SendAssumption
<1>10. log[c].seen >= P + V
  BY <1>7, <1>9
<1>11. V + F <= log[c].seen
  BY <1>1, <1>2, <1>4, <1>10
<1> QED
  BY <1>11 DEF V, F

(* All that a command sends, values and fees together, fits the balance it  *)
(* last read, in one transaction or in one for each call, unless what it    *)
(* sets out to send does not fit a U256 (call_cost, plan_txs,               *)
(* ensure_can_pay).                                                         *)
THEOREM SendsArePaidFor == Spec => []SentIsAffordable
<1>1. IInv /\ PayInv /\ [Next]_vars => PayInv'
  BY NextPays
<1>2. Init => PayInv
  BY InitPays
<1>3. IInv /\ PayInv => SentIsAffordable
  BY PaidIsAffordable
<1> QED
  BY <1>1, <1>2, <1>3, Inductive, PTL DEF Spec
=============================================================================
