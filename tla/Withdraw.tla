------------------------------ MODULE Withdraw ------------------------------
(***************************************************************************)
(* Taking money out: the wallet page's withdrawal form and the dialog that *)
(* asks for the code from the mail, in several tabs of one user; the two   *)
(* endpoints behind them, which keep the code in Redis and the money in    *)
(* the database; and the owner's page that approves or rejects.            *)
(*                                                                         *)
(* A request reads the user's row when it starts, and the row lock it      *)
(* takes later does not refresh what it read (see WalletSettlement).       *)
(***************************************************************************)
EXTENDS Integers, Sequences, FiniteSets, Functions

CONSTANTS
  Tabs, Admins,
  Start,          \* the balance at first
  Listed,         \* the saved accounts, in the order of the wallet page's select
  MaxCodes, MaxTx, MaxClicks

ASSUME WithdrawAssumption ==
  /\ {Start, MaxCodes, MaxTx, MaxClicks} \subseteq Nat \ {0}
  /\ Listed # <<>>

VARIABLES
  bal,      \* user.balance
  tx,       \* the withdrawals
  otp,      \* withdraw:otp:{user} in Redis
  mail,     \* what the mails said, per code
  cool,     \* withdraw:otp:cooldown:{user}
  tab,      \* the wallet pages
  call,     \* requests in flight
  list,     \* the rows the owners' pages show as pending
  raced,    \* codes that were read by one request and written by another meanwhile
  crossed,  \* two requests changed the balance with overlapping reads
  clicks

vars == <<bal, tx, otp, mail, cool, tab, call, list, raced, crossed, clicks>>

Amounts == 1..Start
Nowhere == "BANK"                       \* what is sent when no account is chosen
Dests == Range(Listed) \cup {Nowhere}
Data == [amt: Amounts, dest: Dests]
NoData == [amt |-> 0, dest |-> Nowhere]
MaxTries == 3

Codes == 1..MaxCodes
NoOtp == [code |-> 0, data |-> NoData, tries |-> 0]
(* The counter that is stored never reaches the limit: the check for it   *)
(* when the code is read finds nothing.                                   *)
OtpType == [code: 0..MaxCodes, data: Data \cup {NoData}, tries: 0..(MaxTries - 1)]

(* A tab's submit button and confirmation share the submitting flag; the  *)
(* button that resends the code has a flag of its own.                    *)
Slots == (Tabs \X {"main", "again"}) \cup (Admins \X {"main"})
NoCall == [kind |-> "none", pc |-> "idle", data |-> NoData, code |-> 0, snap |-> 0,
           seen |-> NoOtp, row |-> 0]
CallType == [kind: {"none", "otp", "withdraw", "approved", "rejected"},
             pc: {"idle", "sent", "read", "wrong", "burnt", "ok", "failed"},
             data: Data \cup {NoData}, code: 0..MaxCodes, snap: Nat, seen: OtpType, row: 0..MaxTx]
TxType == [amt: Amounts, dest: Dests, st: {"pending", "approved", "rejected"}, code: Codes]
NoTab == [sel |-> "manual", open |-> FALSE, pend |-> NoData, wait |-> FALSE]

TypeOK ==
  /\ bal \in Nat /\ tx \in Seq(TxType) /\ Len(tx) <= MaxTx /\ otp \in OtpType
  /\ mail \in Seq(Data) /\ Len(mail) <= MaxCodes /\ cool \in BOOLEAN
  /\ tab \in [Tabs -> [sel: Range(Listed) \cup {"manual"}, open: BOOLEAN,
                       pend: Data \cup {NoData}, wait: BOOLEAN]]
  /\ call \in [Slots -> CallType] /\ list \subseteq 1..MaxTx
  /\ raced \subseteq Codes /\ crossed \in BOOLEAN /\ clicks \in 0..MaxClicks

Init ==
  /\ bal = Start /\ tx = <<>> /\ otp = NoOtp /\ mail = <<>> /\ cool = FALSE
  /\ tab = [t \in Tabs |-> NoTab] /\ call = [s \in Slots |-> NoCall] /\ list = {}
  /\ raced = {} /\ crossed = FALSE /\ clicks = 0

Click == clicks < MaxClicks /\ clicks' = clicks + 1
Free(s) == call[s].pc = "idle"
Send(s, k, d, code, row) ==
  call' = [call EXCEPT ![s] = [NoCall EXCEPT !.kind = k, !.pc = "sent", !.data = d, !.code = code, !.row = row]]
At(s, k, pc) == call[s].kind = k /\ call[s].pc = pc
To(s, pc) == call' = [call EXCEPT ![s].pc = pc]
Main(t) == <<t, "main">>

-----------------------------------------------------------------------------
(* The wallet page *)

(* handleAccountSelect *)
SelectAccount(t, b) ==
  /\ Click /\ ~tab[t].open /\ tab[t].sel # b
  /\ tab' = [tab EXCEPT ![t].sel = b]
  /\ UNCHANGED <<bal, tx, otp, mail, cool, call, list, raced, crossed>>

(* The select shows the first saved account as long as none was chosen;   *)
(* what is sent then is only the method.                                  *)
Destination(t) == IF tab[t].sel = "manual" THEN Nowhere ELSE tab[t].sel

(* handleSubmit on the withdrawal tab: remembers the data, asks for a code. *)
SubmitWithdraw(t, amt) ==
  LET d == [amt |-> amt, dest |-> Destination(t)] IN
  /\ Click /\ ~tab[t].open /\ Free(Main(t))
  /\ tab' = [tab EXCEPT ![t].pend = d]
  /\ Send(Main(t), "otp", d, 0, 0)
  /\ UNCHANGED <<bal, tx, otp, mail, cool, list, raced, crossed>>

(* The code has been sent: the dialog opens. *)
OtpRequested(t) ==
  /\ At(Main(t), "otp", "ok")
  /\ tab' = [tab EXCEPT ![t] = [@ EXCEPT !.open = TRUE, !.wait = TRUE]]
  /\ call' = [call EXCEPT ![Main(t)] = NoCall]
  /\ UNCHANGED <<bal, tx, otp, mail, cool, list, raced, crossed, clicks>>

OtpRefused(s) ==
  /\ At(s, "otp", "failed")
  /\ call' = [call EXCEPT ![s] = NoCall]
  /\ UNCHANGED <<bal, tx, otp, mail, cool, tab, list, raced, crossed, clicks>>

(* The button of the dialog that asks for another code. *)
Resend(t) ==
  /\ Click /\ tab[t].open /\ ~tab[t].wait /\ Free(<<t, "again">>) /\ tab[t].pend # NoData
  /\ Send(<<t, "again">>, "otp", tab[t].pend, 0, 0)
  /\ UNCHANGED <<bal, tx, otp, mail, cool, tab, list, raced, crossed>>

Resent(t) ==
  /\ At(<<t, "again">>, "otp", "ok")
  /\ tab' = [tab EXCEPT ![t].wait = TRUE]
  /\ call' = [call EXCEPT ![<<t, "again">>] = NoCall]
  /\ UNCHANGED <<bal, tx, otp, mail, cool, list, raced, crossed, clicks>>

(* The countdown under the button has run out; it started after the       *)
(* server's and is as long.                                               *)
WaitEnds(t) ==
  /\ tab[t].wait /\ ~cool
  /\ tab' = [tab EXCEPT ![t].wait = FALSE]
  /\ UNCHANGED <<bal, tx, otp, mail, cool, call, list, raced, crossed, clicks>>

(* The dialog stays while it is submitting. *)
CloseOtpDialog(t) ==
  /\ Click /\ tab[t].open /\ Free(Main(t))
  /\ tab' = [tab EXCEPT ![t] = [@ EXCEPT !.open = FALSE, !.pend = NoData]]
  /\ UNCHANGED <<bal, tx, otp, mail, cool, call, list, raced, crossed>>

(* The user types a code from a mail, or a wrong one (0), and confirms. *)
ConfirmWithdraw(t, code) ==
  /\ Click /\ tab[t].open /\ Free(Main(t)) /\ tab[t].pend # NoData
  /\ Send(Main(t), "withdraw", tab[t].pend, code, 0)
  /\ UNCHANGED <<bal, tx, otp, mail, cool, tab, list, raced, crossed>>

Withdrawn(t) ==
  /\ At(Main(t), "withdraw", "ok")
  /\ tab' = [tab EXCEPT ![t] = [NoTab EXCEPT !.wait = tab[t].wait]]
  /\ call' = [call EXCEPT ![Main(t)] = NoCall]
  /\ UNCHANGED <<bal, tx, otp, mail, cool, list, raced, crossed, clicks>>

WithdrawFailed(t) ==
  /\ At(Main(t), "withdraw", "failed")
  /\ call' = [call EXCEPT ![Main(t)] = NoCall]
  /\ UNCHANGED <<bal, tx, otp, mail, cool, tab, list, raced, crossed, clicks>>

-----------------------------------------------------------------------------
(* POST /wallet/withdraw/otp/request *)

(* The balance and the cooldown are looked at ... *)
OtpCheck(s) ==
  /\ At(s, "otp", "sent")
  /\ To(s, IF bal < call[s].data.amt \/ cool THEN "failed" ELSE "read")
  /\ UNCHANGED <<bal, tx, otp, mail, cool, tab, list, raced, crossed, clicks>>

Holding(code, s) == {r \in Slots \ {s} : call[r].kind = "withdraw" /\ call[r].pc \in {"read", "wrong"}
                                         /\ call[r].seen.code = code /\ code # 0}
RacedWith(s) == raced \cup {c \in {otp.code, call[s].seen.code} : Holding(c, s) # {}}

(* ... and then the code is stored and mailed. *)
OtpStore(s) ==
  /\ At(s, "otp", "read") /\ Len(mail) < MaxCodes
  /\ mail' = Append(mail, call[s].data)
  /\ otp' = [code |-> Len(mail) + 1, data |-> call[s].data, tries |-> 0]
  /\ cool' = TRUE /\ raced' = RacedWith(s)
  /\ To(s, "ok")
  /\ UNCHANGED <<bal, tx, tab, list, crossed, clicks>>

CooldownEnds ==
  /\ cool /\ cool' = FALSE
  /\ UNCHANGED <<bal, tx, otp, mail, tab, call, list, raced, crossed, clicks>>

CodeExpires ==
  /\ otp # NoOtp /\ otp' = NoOtp
  /\ UNCHANGED <<bal, tx, mail, cool, tab, call, list, raced, crossed, clicks>>

-----------------------------------------------------------------------------
(* POST /wallet/withdraw *)

(* The user's row and the code are read. *)
WithdrawRead(s) ==
  /\ At(s, "withdraw", "sent")
  /\ call' = [call EXCEPT ![s] = [@ EXCEPT !.snap = bal, !.seen = otp,
                                           !.pc = IF otp = NoOtp THEN "failed" ELSE "read"]]
  /\ UNCHANGED <<bal, tx, otp, mail, cool, tab, list, raced, crossed, clicks>>

RightCode(k) == k.code = k.seen.code
(* Mutant: the amount the code was asked for is not compared. *)
AmountBoundNot(k) == TRUE
AmountBound(k) == k.seen.data.amt = k.data.amt

LastTry(k) == k.seen.tries + 1 >= MaxTries

(* A wrong code: the third one deletes it, another asks for its lifetime. *)
WrongCode(s) ==
  /\ At(s, "withdraw", "read") /\ ~RightCode(call[s])
  /\ \/ /\ LastTry(call[s])
        /\ otp' = NoOtp /\ raced' = RacedWith(s) /\ To(s, "failed")
     \/ /\ ~LastTry(call[s])
        /\ To(s, IF otp = NoOtp THEN "failed" ELSE "wrong") /\ UNCHANGED <<otp, raced>>
  /\ UNCHANGED <<bal, tx, mail, cool, tab, list, crossed, clicks>>

(* ... and stores what it read with one try more. *)
CountTry(s) ==
  /\ At(s, "withdraw", "wrong")
  /\ otp' = [call[s].seen EXCEPT !.tries = @ + 1] /\ raced' = RacedWith(s)
  /\ To(s, "failed")
  /\ UNCHANGED <<bal, tx, mail, cool, tab, list, crossed, clicks>>

(* A right code is deleted, whether the amount is the one it was asked    *)
(* for or not.                                                            *)
Burn(s) == otp' = NoOtp /\ raced' = RacedWith(s)

RightCodeGiven(s) ==
  /\ At(s, "withdraw", "read") /\ RightCode(call[s])
  /\ Burn(s)
  /\ To(s, IF AmountBound(call[s]) THEN "burnt" ELSE "failed")
  /\ UNCHANGED <<bal, tx, mail, cool, tab, list, crossed, clicks>>

(* Another request that has read the balance and not written it yet. *)
Pays(s) == call[s].kind \in {"withdraw", "rejected"} /\ call[s].pc \in {"read", "wrong", "burnt"}
CrossedBy(s) == crossed \/ \E r \in Slots \ {s} : Pays(r)

(* The row is locked; the balance that counts is the one read before. *)
Debit(s) ==
  LET k == call[s] IN
  /\ At(s, "withdraw", "burnt") /\ Len(tx) < MaxTx
  /\ \/ /\ k.snap >= k.data.amt
        /\ bal' = k.snap - k.data.amt /\ crossed' = CrossedBy(s)
        /\ tx' = Append(tx, [amt |-> k.data.amt, dest |-> k.data.dest, st |-> "pending", code |-> k.code])
        /\ To(s, "ok")
     \/ k.snap < k.data.amt /\ To(s, "failed") /\ UNCHANGED <<bal, tx, crossed>>
  /\ UNCHANGED <<otp, mail, cool, tab, list, raced, clicks>>

-----------------------------------------------------------------------------
(* The owner's transactions page and PUT /admin/transactions/{id}/status *)

Pending == {i \in DOMAIN tx : tx[i].st = "pending"}

RefetchAdminTxs ==
  /\ list # Pending /\ list' = Pending
  /\ UNCHANGED <<bal, tx, otp, mail, cool, tab, call, raced, crossed, clicks>>

(* handleApprove and handleRejectSubmit, from the row or from the dialogs; *)
(* nothing holds the buttons while a call runs.                           *)
Decide(a, i, st) ==
  /\ Click /\ i \in list /\ Free(Main(a))
  /\ Send(Main(a), st, NoData, 0, i)
  /\ UNCHANGED <<bal, tx, otp, mail, cool, tab, list, raced, crossed>>

Locked(i, s) == \E r \in Slots \ {s} : call[r].row = i /\ call[r].pc = "read"

(* Mutant: the status of the locked row is not looked at. *)
StillPendingNot(i) == TRUE
StillPending(i) == tx[i].st = "pending"

(* The transaction is locked and its user read. *)
DecisionRead(a) ==
  LET s == Main(a) IN
  /\ call[s].kind \in {"approved", "rejected"} /\ call[s].pc = "sent"
  /\ ~Locked(call[s].row, s)
  /\ call' = [call EXCEPT ![s] = [@ EXCEPT !.snap = bal,
                !.pc = IF StillPending(call[s].row) THEN "read" ELSE "failed"]]
  /\ UNCHANGED <<bal, tx, otp, mail, cool, tab, list, raced, crossed, clicks>>

Refund(k) == k.snap + tx[k.row].amt

DecisionWrite(a) ==
  LET k == call[Main(a)] IN
  /\ k.kind \in {"approved", "rejected"} /\ k.pc = "read"
  /\ tx' = [tx EXCEPT ![k.row].st = k.kind]
  /\ IF k.kind = "rejected" THEN bal' = Refund(k) /\ crossed' = CrossedBy(Main(a))
     ELSE UNCHANGED <<bal, crossed>>
  /\ To(Main(a), "ok")
  /\ UNCHANGED <<otp, mail, cool, tab, list, raced, clicks>>

(* The toast; on success the rows are asked for again. *)
Decided(a) ==
  /\ call[Main(a)].kind \in {"approved", "rejected"} /\ call[Main(a)].pc \in {"ok", "failed"}
  /\ list' = IF call[Main(a)].pc = "ok" THEN Pending ELSE list
  /\ call' = [call EXCEPT ![Main(a)] = NoCall]
  /\ UNCHANGED <<bal, tx, otp, mail, cool, tab, raced, crossed, clicks>>

-----------------------------------------------------------------------------
User(t) ==
  \/ \E b \in Range(Listed) : SelectAccount(t, b)
  \/ \E amt \in Amounts : SubmitWithdraw(t, amt)
  \/ \E code \in 0..Len(mail) : ConfirmWithdraw(t, code)
  \/ Resend(t) \/ CloseOtpDialog(t)

Page(t) == OtpRequested(t) \/ Resent(t) \/ WaitEnds(t) \/ Withdrawn(t) \/ WithdrawFailed(t)

Server(s) == \/ OtpRefused(s) \/ OtpCheck(s) \/ OtpStore(s) \/ WithdrawRead(s)
             \/ WrongCode(s) \/ CountTry(s) \/ RightCodeGiven(s) \/ Debit(s)

Owner(a) == \/ \E i \in 1..MaxTx, st \in {"approved", "rejected"} : Decide(a, i, st)
            \/ DecisionRead(a) \/ DecisionWrite(a) \/ Decided(a)

Next ==
  \/ \E t \in Tabs : User(t) \/ Page(t)
  \/ \E s \in Slots : Server(s)
  \/ \E a \in Admins : Owner(a)
  \/ RefetchAdminTxs \/ CooldownEnds \/ CodeExpires

Spec == Init /\ [][Next]_vars

-----------------------------------------------------------------------------
(* The mail names the amount the code is for: a withdrawal confirmed with *)
(* the code, in whichever tab, takes that amount.  Where it goes is not   *)
(* compared (LinkedToDestination).                                        *)
MailedAmount == \A i \in DOMAIN tx : tx[i].amt = mail[tx[i].code].amt

(* "dynamic linking to amount/destination" (withdrawals.py:81): the money *)
(* goes where the mail with the code said.                                *)
LinkedToDestination == \A i \in DOMAIN tx : tx[i].dest = mail[tx[i].code].dest

(* A code pays once, unless one request had read it when another one      *)
(* wrote it: reading, comparing and deleting are three calls.             *)
CodeReusedOnlyInRace ==
  \A i, j \in DOMAIN tx : i # j /\ tx[i].code = tx[j].code => tx[i].code \in raced

(* The balance and the withdrawals that were not rejected add up to what  *)
(* was there, unless two requests changed the balance from reads that     *)
(* overlapped. The sum of the amounts is the number of their units.       *)
Units == {u \in (DOMAIN tx) \X Amounts : tx[u[1]].st # "rejected" /\ u[2] <= tx[u[1]].amt}
NotRejected == Cardinality(Units)
Conserved == ~crossed => bal + NotRejected = Start

(* A decision is final, whoever decides at the same time. *)
DecisionFinal ==
  [][\A i \in DOMAIN tx : tx[i].st # "pending" => tx'[i] = tx[i]]_vars

(* A code pays the amount that was mailed, to whom the confirming tab     *)
(* says, and once outside CodeReusedOnlyInRace's race; the money adds up. *)
WithdrawSafe == TypeOK /\ MailedAmount /\ CodeReusedOnlyInRace /\ Conserved
=============================================================================
